---- MODULE Spec2Model ----
(***************************************************************************)
(* Payment Operation Pipeline of the router crate: the Cancel/Reject       *)
(* operation (PaymentReject), the per-payment lock held around one         *)
(* pipeline invocation, and the customer operations of core/customers.rs.  *)
(*                                                                         *)
(* Optional values (Rust Option<T>) are sequences of length 0 or 1.        *)
(***************************************************************************)
EXTENDS Integers, Sequences, FiniteSets, TLC

\* ------------------------------------------------------------------------
\* Bounds
\* ------------------------------------------------------------------------
NumInvocations == 2

Invocations == 1..NumInvocations

NumCustomerCalls == 2

CustomerCalls == 1..NumCustomerCalls

NumVaultCalls == 2

VaultCalls == 1..NumVaultCalls

\* ------------------------------------------------------------------------
\* Option<T>
\* ------------------------------------------------------------------------
None == <<>>

Some(x) == <<x>>

IsSome(o) == o # <<>>

Unwrap(o) == o[1]

\* ------------------------------------------------------------------------
\* Identifiers and enumerations
\* ------------------------------------------------------------------------
Payments == {"pay_1", "pay_2"}

NoHolder == 0

MerchantContexts ==
    { [merchant_id |-> "m_1", storage_scheme |-> "postgres_only"],
      [merchant_id |-> "m_2", storage_scheme |-> "redis_kv"] }

\* enums::IntentStatus values used by the stored intents
IntentStatuses ==
    { "RequiresConfirmation", "RequiresCapture", "RequiresMerchantAction",
      "Processing", "Succeeded", "Failed", "Cancelled" }

\* a guard list that forgets Failed
RejectNotAllowedStatusesNoFailed == {"Cancelled", "Succeeded", "Processing"}

\* a guard list that forgets Succeeded
RejectNotAllowedStatusesNoSucceeded == {"Cancelled", "Failed", "Processing"}

\* a guard list that forgets Processing
RejectNotAllowedStatusesNoProcessing == {"Cancelled", "Failed", "Succeeded"}

\* the not-allowed statuses handed to the status guard by get_trackers

RejectNotAllowedStatuses == {"Cancelled", "Failed", "Succeeded", "Processing"}

\* ------------------------------------------------------------------------
\* State
\* ------------------------------------------------------------------------
VARIABLES
    intents,        \* payment id -> Option<PaymentIntent row>
    attempts,       \* attempt id -> Option<PaymentAttempt row>
    addresses,      \* address id -> Option<Address row>
    frauds,         \* payment id -> Option<FraudCheck row>
    profiles,       \* profile id -> Option<business profile row>
    audit,          \* the audit event stream (append-only sequence)
    lock,           \* payment id -> invocation holding the lock, or NoHolder
    pc,             \* invocation -> position in the pipeline
    req,            \* invocation -> [payment_id, mc, locking]
    vres,           \* invocation -> Option<ValidateResult>
    ws,             \* invocation -> Option<PaymentData> (the Working Set)
    result,         \* invocation -> outcome of the invocation ("none" while running)
    acquires,       \* invocation -> number of lock acquisition calls made
    reads,          \* invocation -> number of storage reads issued
    writes,         \* invocation -> number of storage update statements issued
    guarded,        \* invocation -> Option<status handed to the State Guard>
    faulted,        \* invocation -> a storage call failed under it for a reason
                    \*               other than a row missing from the tables
                    \*               below, and the error was propagated
    scenario        \* the stored state of pay_1 at the start (never changes)

payvars == <<intents, attempts, addresses, frauds, profiles, audit, lock, pc,
             req, vres, ws, result, acquires, reads, writes, guarded, faulted,
             scenario>>

VARIABLES
    customers,      \* the customer table: a set of Customer rows
    cpc,            \* customer call -> position in create_customer
    creq,           \* customer call -> [auth, data]: merchant account and request
    cinsert,        \* customer call -> outcome of its insert_customer call
    cfetch,         \* customer call -> outcome of its compensating fetch
    cfetches,       \* customer call -> number of compensating fetches issued
    cresult,        \* customer call -> outcome of the call ("none" while running)
    cresponse       \* customer call -> Option<CustomerResponse>

VARIABLES
    mandates,         \* the mandate table: a set of Mandate rows
    payment_methods,  \* the payment-method table: a set of PaymentMethod rows
    locker,           \* the card vault: payment-method ids with a stored card
    customer_addresses, \* the address table, by customer: a set of Address rows
    dpms,             \* customer call -> payment methods delete_customer has
                      \*                  fetched and not yet gone through
    cfail,            \* customer call -> Option<<storage call, failure>>: the
                      \*                  storage call that failed under it
    clog              \* customer call -> the mutating calls delete_customer
                      \*                  has completed under it, in order

opsvars == <<mandates, payment_methods, locker, customer_addresses, dpms, cfail, clog>>

custvars == <<customers, cpc, creq, cinsert, cfetch, cfetches, cresult, cresponse,
              opsvars>>

VARIABLES
    vpc,            \* vault call -> position in the request builder
    vargs,          \* vault call -> [builder, jwekey, payload]: the arguments
    vjws,           \* vault call -> Option<signed payload (compact JWS)>
    vjwe,           \* vault call -> Option<JweBody>
    vresult,        \* vault call -> [err, request]: what the builder returned
    vcalls          \* vault call -> the encryption-library calls made, in order

vaultvars == <<vpc, vargs, vjws, vjwe, vresult, vcalls>>

VARIABLES
    epc,            \* ephemeral-key route -> position in server_wrap
    ereq,           \* ephemeral-key route -> the payload of the call in flight
    eresult,        \* ephemeral-key route -> outcome of its last call
    ekeys           \* the ephemeral keys stored: a set of [id, customer_id, merchant_id]

ephvars == <<epc, ereq, eresult, ekeys>>

vars == <<payvars, custvars, vaultvars, ephvars>>

\* ------------------------------------------------------------------------
\* Stored records
\* ------------------------------------------------------------------------
PaymentIds == Payments

AttemptIds == {"att_1a", "att_1b", "att_2"}

AddressIds == {"addr_1", "addr_2"}

ProfileIds == {"pro_1", "pro_x"}

IntentRow(pid, mid, status, active, profile, shipping, billing) ==
    [ payment_id |-> pid, merchant_id |-> mid, status |-> status,
      merchant_decision |-> None, active_attempt |-> active,
      profile_id |-> profile, shipping_address_id |-> shipping,
      billing_address_id |-> billing, updated_by |-> "postgres_only" ]

AttemptRow(aid, pid, mid, status, code, message, pmb) ==
    [ attempt_id |-> aid, payment_id |-> pid, merchant_id |-> mid,
      status |-> status, amount |-> 100, currency |-> Some("USD"),
      error_code |-> code, error_message |-> message,
      payment_method_billing_address_id |-> pmb,
      updated_by |-> "postgres_only" ]

FraudRow(pid, mid, status, reason) ==
    [ payment_id |-> pid, merchant_id |-> mid, frm_status |-> status,
      frm_reason |-> reason ]

\* FraudCheckStatus::to_string (snake_case serialisation of the variant)
FrmStatusToString(s) ==
    CASE s = "Fraud" -> "fraud"
      [] s = "ManualReview" -> "manual_review"
      [] s = "Legit" -> "legit"
      [] OTHER -> "pending"

\* serde_json::Value::to_string of a JSON string: the text in double quotes
ReasonToString(r) ==
    CASE r = "suspicious" -> "\"suspicious\""
      [] OTHER -> "\"\""

\* fraud-check rows a payment may start with
InitFrauds ==
    { None,
      Some(FraudRow("pay_1", "m_1", "Fraud", None)),
      Some(FraudRow("pay_1", "m_1", "ManualReview", Some("suspicious"))) }

\* merchant-facing requests the invocations are drawn from
Requests ==
    { [payment_id |-> "pay_1", mc |-> [merchant_id |-> "m_1", storage_scheme |-> "postgres_only"]],
      [payment_id |-> "pay_2", mc |-> [merchant_id |-> "m_1", storage_scheme |-> "postgres_only"]],
      [payment_id |-> "pay_1", mc |-> [merchant_id |-> "m_2", storage_scheme |-> "redis_kv"]] }

NoRequest == [payment_id |-> "", mc |-> [merchant_id |-> "", storage_scheme |-> ""]]

\* stored state of pay_1 at the start: every status with the usual profile
\* and no fraud result, every profile/fraud combination of a payment that
\* may be rejected, no intent row at all, and an intent whose active attempt
\* has no row
InitScenarios ==
    { [stored |-> TRUE, attempt |-> TRUE, status |-> s, profile |-> Some("pro_1"),
       fraud |-> None, address |-> TRUE] :
        s \in IntentStatuses }
    \cup
    { [stored |-> TRUE, attempt |-> TRUE, status |-> "RequiresCapture",
       profile |-> pr, fraud |-> f, address |-> TRUE] :
        pr \in {None, Some("pro_1"), Some("pro_x")}, f \in InitFrauds }
    \cup
    { [stored |-> FALSE, attempt |-> TRUE, status |-> "RequiresCapture",
       profile |-> Some("pro_1"), fraud |-> None, address |-> TRUE],
      [stored |-> TRUE, attempt |-> FALSE, status |-> "RequiresCapture",
       profile |-> Some("pro_1"), fraud |-> None, address |-> TRUE] }

\* stored state of pay_1 for the order of the checks in get_trackers: an
\* intent in a forbidden or an allowed status whose attempt row, address
\* row or profile may be missing, and no intent row at all
GuardOrderScenarios ==
    { [stored |-> TRUE, attempt |-> a, status |-> s, profile |-> pr,
       fraud |-> None, address |-> ad] :
        a \in BOOLEAN, ad \in BOOLEAN, s \in {"Processing", "RequiresCapture"},
        pr \in {None, Some("pro_1"), Some("pro_x")} }
    \cup
    { [stored |-> FALSE, attempt |-> FALSE, status |-> "Succeeded",
       profile |-> Some("pro_x"), fraud |-> None, address |-> FALSE] }

PayInitFrom(scenarios) ==
    /\ \E sc \in scenarios :
          /\ scenario = sc
          /\ intents =
               [p \in PaymentIds |->
                  CASE p = "pay_1" /\ sc.stored ->
                         Some(IntentRow("pay_1", "m_1", sc.status, "att_1b",
                                        sc.profile, Some("addr_1"), None))
                    [] p = "pay_2" ->
                         Some(IntentRow("pay_2", "m_1", "RequiresCapture", "att_2",
                                        Some("pro_1"), None, Some("addr_2")))
                    [] OTHER -> None]
          /\ frauds = [p \in PaymentIds |-> IF p = "pay_1" THEN sc.fraud ELSE None]
          /\ attempts =
               [a \in AttemptIds |->
                  CASE a = "att_1a" ->
                         Some(AttemptRow("att_1a", "pay_1", "m_1", "Failure",
                                         Some("E_DECLINED"), Some("declined"), None))
                    [] a = "att_1b" /\ sc.attempt ->
                         Some(AttemptRow("att_1b", "pay_1", "m_1", "Authorized",
                                         Some("E_OLD"), Some("old message"),
                                         Some("addr_1")))
                    [] a = "att_2" ->
                         Some(AttemptRow("att_2", "pay_2", "m_1", "Authorized",
                                         None, None, None))
                    [] OTHER -> None]
          /\ addresses =
               [a \in AddressIds |->
                  IF a = "addr_1" /\ sc.address
                  THEN Some([address_id |-> "addr_1", city |-> "Berlin"])
                  ELSE None]
    /\ profiles =
         [p \in ProfileIds |->
            IF p = "pro_1"
            THEN Some([profile_id |-> "pro_1",
                       use_billing_as_payment_method_billing |-> TRUE])
            ELSE None]
    /\ audit = <<>>
    /\ lock = [p \in PaymentIds |-> NoHolder]
    /\ pc = [i \in Invocations |-> "idle"]
    /\ req = [i \in Invocations |-> NoRequest]
    /\ vres = [i \in Invocations |-> None]
    /\ ws = [i \in Invocations |-> None]
    /\ result = [i \in Invocations |-> "none"]
    /\ acquires = [i \in Invocations |-> 0]
    /\ reads = [i \in Invocations |-> 0]
    /\ writes = [i \in Invocations |-> 0]
    /\ guarded = [i \in Invocations |-> None]
    /\ faulted = [i \in Invocations |-> FALSE]

PayInit == PayInitFrom(InitScenarios)

\* ------------------------------------------------------------------------
\* Storage interface (reads) and helpers used by get_trackers
\* ------------------------------------------------------------------------
find_payment_intent_by_payment_id_merchant_id(pid, mid) ==
    IF IsSome(intents[pid]) /\ Unwrap(intents[pid]).merchant_id = mid
    THEN intents[pid] ELSE None

find_payment_attempt_by_payment_id_merchant_id_attempt_id(pid, mid, aid) ==
    IF /\ IsSome(attempts[aid])
       /\ Unwrap(attempts[aid]).payment_id = pid
       /\ Unwrap(attempts[aid]).merchant_id = mid
    THEN attempts[aid] ELSE None

find_fraud_check_by_payment_id(pid, mid) ==
    IF IsSome(frauds[pid]) /\ Unwrap(frauds[pid]).merchant_id = mid
    THEN frauds[pid] ELSE None

find_business_profile_by_profile_id(prid) == profiles[prid]

\* helpers::get_address_by_id: no id, no lookup; an id resolves to the row
\* when it exists
get_address_by_id(address_id) ==
    IF IsSome(address_id) THEN addresses[Unwrap(address_id)] ELSE None

\* number of address lookups that reach storage
AddressReads(intent, attempt) ==
    (IF IsSome(intent.shipping_address_id) THEN 1 ELSE 0)
    + (IF IsSome(intent.billing_address_id) THEN 1 ELSE 0)
    + (IF IsSome(attempt.payment_method_billing_address_id) THEN 1 ELSE 0)

\* State Guard: Ok (TRUE) iff the current status is not in the forbidden set
validate_payment_status_against_not_allowed_statuses(status, not_allowed) ==
    status \notin not_allowed

\* the router is built with its default feature "frm"
FrmFeature == TRUE

\* api::PaymentIdType::PaymentIntentId(id)
PaymentIntentId(id) == [kind |-> "PaymentIntentId", id |-> id]

\* PaymentIdTypeExt::get_payment_intent_id: the id of a PaymentIntentId, an
\* error for every other kind of payment id
get_payment_intent_id(payment_id) ==
    IF payment_id.kind = "PaymentIntentId" THEN Some(payment_id.id) ELSE None

\* a lookup whose not-found is reported as an internal error
to_not_found_response_internal(fault) == "InternalServerError"

\* StorageErrorExt::to_not_found_response(PaymentNotFound) on a storage
\* error: not-found becomes PaymentNotFound, any other error is internal
to_not_found_response(fault) ==
    IF fault = "not_found" THEN "PaymentNotFound" ELSE "InternalServerError"

\* a missing profile reference reported like an unresolvable one
profile_id_required_as_not_found(profile_id) ==
    IF IsSome(profile_id) THEN "" ELSE "ProfileNotFound"

\* payment_intent.profile_id.get_required_value("profile_id")
\*     .change_context(InternalServerError): "" for Ok
profile_id_required(profile_id) ==
    IF IsSome(profile_id) THEN "" ELSE "InternalServerError"

\* StorageErrorExt::to_not_found_response(ProfileNotFound { id }) on the
\* error of the business-profile lookup
profile_to_not_found_response(fault) ==
    IF fault = "not_found" THEN "ProfileNotFound" ELSE "InternalServerError"

\* storage faults that can be injected into one run of get_trackers: the
\* lookup named fails with a storage error other than not-found
GtFaults == {"none", "intent", "attempt", "address", "frm", "profile"}

GtErr(e, n, g, f) ==
    [err |-> e, data |-> None, reads |-> n, guarded |-> g, faulted |-> f]

\* a get_trackers that looks the active attempt up before it checks the
\* status of the intent
get_trackers_guard_after_attempt(payment_id, mc, fault) ==
    IF ~IsSome(get_payment_intent_id(payment_id))
    THEN GtErr("PaymentNotFound", 0, None, FALSE)
    ELSE
    LET mid == mc.merchant_id
        pid == Unwrap(get_payment_intent_id(payment_id))
        pi  == find_payment_intent_by_payment_id_merchant_id(pid, mid)
    IN
    IF fault = "intent" THEN GtErr(to_not_found_response("error"), 1, None, TRUE)
    ELSE IF ~IsSome(pi) THEN GtErr(to_not_found_response("not_found"), 1, None, FALSE)
    ELSE
    LET intent == Unwrap(pi)
        g == Some(intent.status)
        pa == find_payment_attempt_by_payment_id_merchant_id_attempt_id(
                  intent.payment_id, mid, intent.active_attempt)
    IN
    IF fault = "attempt" THEN GtErr(to_not_found_response("error"), 2, g, TRUE)
    ELSE IF ~IsSome(pa) THEN GtErr(to_not_found_response("not_found"), 2, g, FALSE)
    ELSE IF ~validate_payment_status_against_not_allowed_statuses(
                intent.status, RejectNotAllowedStatuses)
    THEN GtErr("InvalidStatusTransition", 2, g, FALSE)
    ELSE
    LET attempt == Unwrap(pa)
        n3 == 2 + AddressReads(intent, attempt)
        n4 == n3 + (IF FrmFeature THEN 1 ELSE 0)
        frm == IF FrmFeature /\ fault # "frm"
               THEN find_fraud_check_by_payment_id(intent.payment_id, mid)
               ELSE None
    IN
    IF fault = "address" /\ n3 > 2 THEN GtErr("InternalServerError", n3, g, TRUE)
    ELSE IF ~IsSome(attempt.currency) THEN GtErr("MissingRequiredField", n3, g, FALSE)
    ELSE IF profile_id_required(intent.profile_id) # ""
    THEN GtErr(profile_id_required(intent.profile_id), n4, g, FALSE)
    ELSE IF fault = "profile"
    THEN GtErr(profile_to_not_found_response("error"), n4 + 1, g, TRUE)
    ELSE IF ~IsSome(find_business_profile_by_profile_id(Unwrap(intent.profile_id)))
    THEN GtErr(profile_to_not_found_response("not_found"), n4 + 1, g, FALSE)
    ELSE
    [ err |-> "",
      data |-> Some(
        [ payment_intent |-> intent,
          payment_attempt |-> attempt,
          currency |-> Unwrap(attempt.currency),
          amount |-> attempt.amount,
          address |->
            [ shipping |-> get_address_by_id(intent.shipping_address_id),
              billing |-> get_address_by_id(intent.billing_address_id),
              payment_method_billing |->
                get_address_by_id(attempt.payment_method_billing_address_id),
              unify |-> Unwrap(find_business_profile_by_profile_id(
                           Unwrap(intent.profile_id))).use_billing_as_payment_method_billing ],
          frm_message |-> frm ]),
      reads |-> n4 + 1,
      guarded |-> g,
      faulted |-> FALSE ]

\* a get_trackers that returns the error of the fraud-check lookup
get_trackers_fraud_required(payment_id, mc, fault) ==
    IF ~IsSome(get_payment_intent_id(payment_id))
    THEN GtErr("PaymentNotFound", 0, None, FALSE)
    ELSE
    LET mid == mc.merchant_id
        pid == Unwrap(get_payment_intent_id(payment_id))
        pi  == find_payment_intent_by_payment_id_merchant_id(pid, mid)
    IN
    IF fault = "intent" THEN GtErr(to_not_found_response("error"), 1, None, TRUE)
    ELSE IF ~IsSome(pi) THEN GtErr(to_not_found_response("not_found"), 1, None, FALSE)
    ELSE IF ~validate_payment_status_against_not_allowed_statuses(
                Unwrap(pi).status, RejectNotAllowedStatuses)
    THEN GtErr("InvalidStatusTransition", 1, Some(Unwrap(pi).status), FALSE)
    ELSE
    LET intent == Unwrap(pi)
        g == Some(intent.status)
        pa == find_payment_attempt_by_payment_id_merchant_id_attempt_id(
                  intent.payment_id, mid, intent.active_attempt)
    IN
    IF fault = "attempt" THEN GtErr(to_not_found_response("error"), 2, g, TRUE)
    ELSE IF ~IsSome(pa) THEN GtErr(to_not_found_response("not_found"), 2, g, FALSE)
    ELSE
    LET attempt == Unwrap(pa)
        n3 == 2 + AddressReads(intent, attempt)
        n4 == n3 + (IF FrmFeature THEN 1 ELSE 0)
        frm == IF FrmFeature /\ fault # "frm"
               THEN find_fraud_check_by_payment_id(intent.payment_id, mid)
               ELSE None
    IN
    IF fault = "address" /\ n3 > 2 THEN GtErr("InternalServerError", n3, g, TRUE)
    ELSE IF ~IsSome(attempt.currency) THEN GtErr("MissingRequiredField", n3, g, FALSE)
    ELSE IF FrmFeature /\ fault = "frm" THEN GtErr("PaymentNotFound", n4, g, TRUE)
    ELSE IF FrmFeature /\ ~IsSome(frm) THEN GtErr("PaymentNotFound", n4, g, FALSE)
    ELSE IF profile_id_required(intent.profile_id) # ""
    THEN GtErr(profile_id_required(intent.profile_id), n4, g, FALSE)
    ELSE IF fault = "profile"
    THEN GtErr(profile_to_not_found_response("error"), n4 + 1, g, TRUE)
    ELSE IF ~IsSome(find_business_profile_by_profile_id(Unwrap(intent.profile_id)))
    THEN GtErr(profile_to_not_found_response("not_found"), n4 + 1, g, FALSE)
    ELSE
    [ err |-> "",
      data |-> Some(
        [ payment_intent |-> intent,
          payment_attempt |-> attempt,
          currency |-> Unwrap(attempt.currency),
          amount |-> attempt.amount,
          address |->
            [ shipping |-> get_address_by_id(intent.shipping_address_id),
              billing |-> get_address_by_id(intent.billing_address_id),
              payment_method_billing |->
                get_address_by_id(attempt.payment_method_billing_address_id),
              unify |-> Unwrap(find_business_profile_by_profile_id(
                           Unwrap(intent.profile_id))).use_billing_as_payment_method_billing ],
          frm_message |-> frm ]),
      reads |-> n4 + 1,
      guarded |-> g,
      faulted |-> FALSE ]

\* PaymentReject::get_trackers, as a function of the stored state: the error
\* it returns ("" for Ok), the Working Set it builds and the number of
\* storage reads it issued
get_trackers(payment_id, mc, fault) ==
    IF ~IsSome(get_payment_intent_id(payment_id))
    THEN GtErr("PaymentNotFound", 0, None, FALSE)
    ELSE
    LET mid == mc.merchant_id
        pid == Unwrap(get_payment_intent_id(payment_id))
        pi  == find_payment_intent_by_payment_id_merchant_id(pid, mid)
    IN
    IF fault = "intent" THEN GtErr(to_not_found_response("error"), 1, None, TRUE)
    ELSE IF ~IsSome(pi) THEN GtErr(to_not_found_response("not_found"), 1, None, FALSE)
    ELSE IF ~validate_payment_status_against_not_allowed_statuses(
                Unwrap(pi).status, RejectNotAllowedStatuses)
    THEN GtErr("InvalidStatusTransition", 1, Some(Unwrap(pi).status), FALSE)
    ELSE
    LET intent == Unwrap(pi)
        g == Some(intent.status)
        pa == find_payment_attempt_by_payment_id_merchant_id_attempt_id(
                  intent.payment_id, mid, intent.active_attempt)
    IN
    IF fault = "attempt" THEN GtErr(to_not_found_response("error"), 2, g, TRUE)
    ELSE IF ~IsSome(pa) THEN GtErr(to_not_found_response("not_found"), 2, g, FALSE)
    ELSE
    LET attempt == Unwrap(pa)
        n3 == 2 + AddressReads(intent, attempt)
        n4 == n3 + (IF FrmFeature THEN 1 ELSE 0)
        frm == IF FrmFeature /\ fault # "frm"
               THEN find_fraud_check_by_payment_id(intent.payment_id, mid)
               ELSE None
    IN
    IF fault = "address" /\ n3 > 2 THEN GtErr("InternalServerError", n3, g, TRUE)
    ELSE IF ~IsSome(attempt.currency) THEN GtErr("MissingRequiredField", n3, g, FALSE)
    ELSE IF profile_id_required(intent.profile_id) # ""
    THEN GtErr(profile_id_required(intent.profile_id), n4, g, FALSE)
    ELSE IF fault = "profile"
    THEN GtErr(profile_to_not_found_response("error"), n4 + 1, g, TRUE)
    ELSE IF ~IsSome(find_business_profile_by_profile_id(Unwrap(intent.profile_id)))
    THEN GtErr(profile_to_not_found_response("not_found"), n4 + 1, g, FALSE)
    ELSE
    [ err |-> "",
      data |-> Some(
        [ payment_intent |-> intent,
          payment_attempt |-> attempt,
          currency |-> Unwrap(attempt.currency),
          amount |-> attempt.amount,
          address |->
            [ shipping |-> get_address_by_id(intent.shipping_address_id),
              billing |-> get_address_by_id(intent.billing_address_id),
              payment_method_billing |->
                get_address_by_id(attempt.payment_method_billing_address_id),
              unify |-> Unwrap(find_business_profile_by_profile_id(
                           Unwrap(intent.profile_id))).use_billing_as_payment_method_billing ],
          frm_message |-> frm ]),
      reads |-> n4 + 1,
      guarded |-> g,
      faulted |-> FALSE ]

\* ------------------------------------------------------------------------
\* Update statements built by update_trackers and their effect on a row
\* ------------------------------------------------------------------------
\* a reject statement that also carries the active-attempt reference
IntentRejectUpdateWithActiveAttempt(storage_scheme) ==
    [ status |-> "Failed",
      merchant_decision |-> Some("Rejected"),
      active_attempt |-> "",
      updated_by |-> storage_scheme ]

\* a reject that marks the intent Cancelled instead of Failed
IntentRejectUpdateCancelled(storage_scheme) ==
    [ status |-> "Cancelled",
      merchant_decision |-> Some("Rejected"),
      updated_by |-> storage_scheme ]

\* a reject that records the decision and leaves the intent capturable
IntentRejectUpdateStillCapturable(storage_scheme) ==
    [ status |-> "RequiresCapture",
      merchant_decision |-> Some("Rejected"),
      updated_by |-> storage_scheme ]

\* storage::PaymentIntentUpdate::RejectUpdate
IntentRejectUpdate(storage_scheme) ==
    [ status |-> "Failed",
      merchant_decision |-> Some("Rejected"),
      updated_by |-> storage_scheme ]

\* error fields that leave the stored message alone when the fraud result
\* has no reason
RejectErrorFieldsKeepingMessage(frm_message) ==
    IF IsSome(frm_message)
    THEN [ error_code |-> Some(Some(FrmStatusToString(Unwrap(frm_message).frm_status))),
           error_message |->
             IF IsSome(Unwrap(frm_message).frm_reason)
             THEN Some(Some(ReasonToString(Unwrap(Unwrap(frm_message).frm_reason))))
             ELSE None ]
    ELSE [ error_code |-> None, error_message |-> None ]

\* (error_code, error_message) taken from the fraud-check result: None leaves
\* the column alone, Some(v) sets it to v
RejectErrorFields(frm_message) ==
    IF IsSome(frm_message)
    THEN [ error_code |-> Some(Some(FrmStatusToString(Unwrap(frm_message).frm_status))),
           error_message |->
             Some(IF IsSome(Unwrap(frm_message).frm_reason)
                  THEN Some(ReasonToString(Unwrap(Unwrap(frm_message).frm_reason)))
                  ELSE None) ]
    ELSE [ error_code |-> None, error_message |-> None ]

\* storage::PaymentAttemptUpdate::RejectUpdate
AttemptRejectUpdate(frm_message, storage_scheme) ==
    [ status |-> "Failure",
      error_code |-> RejectErrorFields(frm_message).error_code,
      error_message |-> RejectErrorFields(frm_message).error_message,
      updated_by |-> storage_scheme ]

\* update_payment_intent: the stored row of `this` with the update applied
update_payment_intent(this, update) ==
    LET row == find_payment_intent_by_payment_id_merchant_id(
                   this.payment_id, this.merchant_id)
    IN IF IsSome(row)
       THEN Some([Unwrap(row) EXCEPT !.status = update.status,
                                     !.merchant_decision = update.merchant_decision,
                                     !.updated_by = update.updated_by])
       ELSE None

\* update_payment_attempt_with_attempt_id: the stored row of `this` with the
\* update applied
update_payment_attempt_with_attempt_id(this, update) ==
    LET row == find_payment_attempt_by_payment_id_merchant_id_attempt_id(
                   this.payment_id, this.merchant_id, this.attempt_id)
    IN IF IsSome(row)
       THEN Some([Unwrap(row) EXCEPT
                    !.status = update.status,
                    !.error_code = IF IsSome(update.error_code)
                                   THEN Unwrap(update.error_code) ELSE @,
                    !.error_message = IF IsSome(update.error_message)
                                      THEN Unwrap(update.error_message) ELSE @,
                    !.updated_by = update.updated_by])
       ELSE None

\* AuditEvent::new(AuditEventType::PaymentReject {..}).with(payment_data.to_event())
PaymentRejectEvent(i, data) ==
    [ event_type |-> "PaymentReject",
      error_code |-> data.payment_attempt.error_code,
      error_message |-> data.payment_attempt.error_message,
      payment_id |-> data.payment_intent.payment_id,
      request |-> i ]

\* outcomes of one storage update call: done, the row has vanished under
\* the update (not-found), or any other storage error
UpdateFaults == {"none", "not_found", "error"}

\* an update_trackers that reports every failed update as an internal error
UpdateOutcomeAlwaysInternal(fault, new) ==
    IF fault = "none" /\ IsSome(new) THEN "Ok" ELSE "InternalServerError"

\* an update_trackers that drops the error of a failed update
UpdateOutcomeErrorDropped(fault, new) == "Ok"

\* `.await.to_not_found_response(PaymentNotFound)?` on an update call: "Ok"
\* when the storage call returned the updated row `new`, else the error that
\* update_trackers returns
UpdateOutcome(fault, new) ==
    IF fault = "none" /\ IsSome(new) THEN "Ok"
    ELSE IF fault = "none" THEN "PaymentNotFound"
    ELSE to_not_found_response(fault)

\* ------------------------------------------------------------------------
\* One pipeline invocation of Cancel/Reject
\*   idle -> acquire -> validate -> get_trackers -> domain -> update_intent
\*        -> update_attempt -> release -> done
\* ------------------------------------------------------------------------
staticvars == <<addresses, frauds, profiles, scenario>>

\* the transport layer hands request r to invocation i
Start(i) ==
    /\ pc[i] = "idle"
    /\ UNCHANGED <<custvars, vaultvars, ephvars>>
    /\ \A j \in Invocations : j < i => pc[j] # "idle"
    /\ \E r \in Requests : req' = [req EXCEPT ![i] = r]
    /\ pc' = [pc EXCEPT ![i] = "acquire"]
    /\ UNCHANGED <<intents, attempts, staticvars, audit, lock, vres, ws, result,
                   acquires, reads, writes, guarded, faulted>>

\* an acquire that takes the key without looking at its holder
AcquireLockUnguarded(i) ==
    /\ pc[i] = "acquire"
    /\ UNCHANGED <<custvars, vaultvars, ephvars>>
    /\ lock' = [lock EXCEPT ![req[i].payment_id] = i]
    /\ acquires' = [acquires EXCEPT ![i] = @ + 1]
    /\ pc' = [pc EXCEPT ![i] = "validate"]
    /\ UNCHANGED <<intents, attempts, staticvars, audit, req, vres, ws, result,
                   reads, writes, guarded, faulted>>

\* Locking Coordinator: acquire(key, ttl) returns the handle
AcquireLock(i) ==
    /\ pc[i] = "acquire"
    /\ UNCHANGED <<custvars, vaultvars, ephvars>>
    /\ lock[req[i].payment_id] = NoHolder
    /\ lock' = [lock EXCEPT ![req[i].payment_id] = i]
    /\ acquires' = [acquires EXCEPT ![i] = @ + 1]
    /\ pc' = [pc EXCEPT ![i] = "validate"]
    /\ UNCHANGED <<intents, attempts, staticvars, audit, req, vres, ws, result,
                   reads, writes, guarded, faulted>>

\* a coordinator that tries again after a failed acquisition
LockTimeoutRetry(i) ==
    /\ pc[i] = "acquire"
    /\ UNCHANGED <<custvars, vaultvars, ephvars>>
    /\ lock[req[i].payment_id] # NoHolder
    /\ acquires[i] < 2
    /\ acquires' = [acquires EXCEPT ![i] = @ + 1]
    /\ UNCHANGED <<intents, attempts, staticvars, audit, lock, req, vres, ws,
                   result, pc, reads, writes, guarded, faulted>>

\* an acquire without a timeout: the caller is parked on the held key and
\* nothing wakes it
LockTimeoutParks(i) ==
    /\ pc[i] = "acquire"
    /\ UNCHANGED <<custvars, vaultvars, ephvars>>
    /\ lock[req[i].payment_id] # NoHolder
    /\ acquires' = [acquires EXCEPT ![i] = @ + 1]
    /\ pc' = [pc EXCEPT ![i] = "parked"]
    /\ UNCHANGED <<intents, attempts, staticvars, audit, lock, req, vres, ws,
                   result, reads, writes, guarded, faulted>>

\* lock action Not-applicable: the body runs without acquiring the key
ProceedWithoutLock(i) ==
    /\ pc[i] = "acquire"
    /\ UNCHANGED <<custvars, vaultvars, ephvars>>
    /\ pc' = [pc EXCEPT ![i] = "validate"]
    /\ UNCHANGED <<intents, attempts, staticvars, audit, lock, req, vres, ws,
                   result, acquires, reads, writes, guarded, faulted>>

\* Locking Coordinator: acquire(key, ttl) times out while the key is held
LockTimeout(i) ==
    /\ pc[i] = "acquire"
    /\ UNCHANGED <<custvars, vaultvars, ephvars>>
    /\ lock[req[i].payment_id] # NoHolder
    /\ acquires' = [acquires EXCEPT ![i] = @ + 1]
    /\ result' = [result EXCEPT ![i] = "Conflict"]
    /\ pc' = [pc EXCEPT ![i] = "done"]
    /\ UNCHANGED <<intents, attempts, staticvars, audit, lock, req, vres, ws,
                   reads, writes, guarded, faulted>>

\* a validate_request that lets the caller requeue
validate_request_requeue(request, merchant_context) ==
    [ merchant_id |-> merchant_context.merchant_id,
      payment_id |-> PaymentIntentId(request.payment_id),
      storage_scheme |-> merchant_context.storage_scheme,
      requeue |-> TRUE ]

\* PaymentReject::validate_request
validate_request(request, merchant_context) ==
    [ merchant_id |-> merchant_context.merchant_id,
      payment_id |-> PaymentIntentId(request.payment_id),
      storage_scheme |-> merchant_context.storage_scheme,
      requeue |-> FALSE ]

ValidateRequest(i) ==
    /\ pc[i] = "validate"
    /\ UNCHANGED <<custvars, vaultvars, ephvars>>
    /\ vres' = [vres EXCEPT ![i] = Some(validate_request(req[i], req[i].mc))]
    /\ pc' = [pc EXCEPT ![i] = "get_trackers"]
    /\ UNCHANGED <<intents, attempts, staticvars, audit, lock, req, ws, result,
                   acquires, reads, writes, guarded, faulted>>

\* a GetTracker whose lookups are not scoped by the caller's merchant: they
\* run under the merchant that owns the stored payments
GetTrackersAnyMerchant(i) ==
    /\ pc[i] = "get_trackers"
    /\ UNCHANGED <<custvars, vaultvars, ephvars>>
    /\ \E fault \in GtFaults :
         LET r == get_trackers(Unwrap(vres[i]).payment_id,
                               [req[i].mc EXCEPT !.merchant_id = "m_1"], fault)
         IN /\ reads' = [reads EXCEPT ![i] = @ + r.reads]
            /\ guarded' = [guarded EXCEPT ![i] = r.guarded]
            /\ faulted' = [faulted EXCEPT ![i] = r.faulted]
            /\ IF r.err = ""
               THEN /\ ws' = [ws EXCEPT ![i] = r.data]
                    /\ pc' = [pc EXCEPT ![i] = "domain"]
                    /\ UNCHANGED result
               ELSE /\ result' = [result EXCEPT ![i] = r.err]
                    /\ pc' = [pc EXCEPT ![i] = "release"]
                    /\ UNCHANGED ws
    /\ UNCHANGED <<intents, attempts, staticvars, audit, lock, req, vres,
                   acquires, writes>>

\* a GetTracker that stamps the intent it has loaded
GetTrackersTouching(i) ==
    /\ pc[i] = "get_trackers"
    /\ UNCHANGED <<custvars, vaultvars, ephvars>>
    /\ \E fault \in GtFaults :
         LET r == get_trackers(Unwrap(vres[i]).payment_id, req[i].mc, fault)
         IN /\ reads' = [reads EXCEPT ![i] = @ + r.reads]
            /\ guarded' = [guarded EXCEPT ![i] = r.guarded]
            /\ faulted' = [faulted EXCEPT ![i] = r.faulted]
            /\ IF r.err = ""
               THEN /\ ws' = [ws EXCEPT ![i] = r.data]
                    /\ pc' = [pc EXCEPT ![i] = "domain"]
                    /\ intents' = [intents EXCEPT ![req[i].payment_id] =
                                     Some([Unwrap(@) EXCEPT !.updated_by = "get_trackers"])]
                    /\ UNCHANGED result
               ELSE /\ result' = [result EXCEPT ![i] = r.err]
                    /\ pc' = [pc EXCEPT ![i] = "release"]
                    /\ UNCHANGED <<ws, intents>>
    /\ UNCHANGED <<attempts, staticvars, audit, lock, req, vres,
                   acquires, writes>>

\* a pipeline that goes on to the Domain phase whatever get_trackers returned
GetTrackersThenDomain(i) ==
    /\ pc[i] = "get_trackers"
    /\ UNCHANGED <<custvars, vaultvars, ephvars>>
    /\ \E fault \in GtFaults :
         LET r == get_trackers(Unwrap(vres[i]).payment_id, req[i].mc, fault)
         IN /\ reads' = [reads EXCEPT ![i] = @ + r.reads]
            /\ guarded' = [guarded EXCEPT ![i] = r.guarded]
            /\ faulted' = [faulted EXCEPT ![i] = r.faulted]
            /\ IF r.err = ""
               THEN /\ ws' = [ws EXCEPT ![i] = r.data]
                    /\ UNCHANGED result
               ELSE /\ result' = [result EXCEPT ![i] = r.err]
                    /\ UNCHANGED ws
            /\ pc' = [pc EXCEPT ![i] = "domain"]
    /\ UNCHANGED <<intents, attempts, staticvars, audit, lock, req, vres,
                   acquires, writes>>

\* the GetTracker phase of one invocation: get_trackers on the payment id of
\* the validate result under the caller's merchant context; an error ends
\* the body
GetTrackers(i) ==
    /\ pc[i] = "get_trackers"
    /\ UNCHANGED <<custvars, vaultvars, ephvars>>
    /\ \E fault \in GtFaults :
         LET r == get_trackers(Unwrap(vres[i]).payment_id, req[i].mc, fault)
         IN /\ reads' = [reads EXCEPT ![i] = @ + r.reads]
            /\ guarded' = [guarded EXCEPT ![i] = r.guarded]
            /\ faulted' = [faulted EXCEPT ![i] = r.faulted]
            /\ IF r.err = ""
               THEN /\ ws' = [ws EXCEPT ![i] = r.data]
                    /\ pc' = [pc EXCEPT ![i] = "domain"]
                    /\ UNCHANGED result
               ELSE /\ result' = [result EXCEPT ![i] = r.err]
                    /\ pc' = [pc EXCEPT ![i] = "release"]
                    /\ UNCHANGED ws
    /\ UNCHANGED <<intents, attempts, staticvars, audit, lock, req, vres,
                   acquires, writes>>

\* a Domain phase that voids the attempt at the connector and records the
\* answer, as a connector-driven cancel does
DomainVoidsAtConnector(i) ==
    /\ pc[i] = "domain"
    /\ UNCHANGED <<custvars, vaultvars, ephvars>>
    /\ attempts' = [attempts EXCEPT ![Unwrap(ws[i]).payment_attempt.attempt_id] =
                      IF IsSome(@) THEN Some([Unwrap(@) EXCEPT !.status = "Voided"])
                      ELSE @]
    /\ pc' = [pc EXCEPT ![i] = "update_intent"]
    /\ UNCHANGED <<intents, staticvars, audit, lock, req, vres, ws,
                   result, acquires, reads, writes, guarded, faulted>>

\* Domain phase of Cancel/Reject: no external call, no storage access
Domain(i) ==
    /\ pc[i] = "domain"
    /\ UNCHANGED <<custvars, vaultvars, ephvars>>
    /\ pc' = [pc EXCEPT ![i] = "update_intent"]
    /\ UNCHANGED <<intents, attempts, staticvars, audit, lock, req, vres, ws,
                   result, acquires, reads, writes, guarded, faulted>>

\* an update_trackers that goes on to the attempt without having issued the
\* intent update
UpdateIntentDeferred(i) ==
    /\ pc[i] = "update_intent"
    /\ UNCHANGED <<custvars, vaultvars, ephvars>>
    /\ pc' = [pc EXCEPT ![i] = "update_attempt"]
    /\ UNCHANGED <<intents, attempts, staticvars, audit, lock, req, vres, ws,
                   result, acquires, reads, writes, guarded, faulted>>

\* an update_trackers that reads the status again and refuses a status the
\* guard refuses
UpdateIntentRechecking(i) ==
    /\ pc[i] = "update_intent"
    /\ UNCHANGED <<custvars, vaultvars, ephvars>>
    /\ writes' = [writes EXCEPT ![i] = @ + 1]
    /\ \E fault \in UpdateFaults :
         LET data == Unwrap(ws[i])
             scheme == Unwrap(vres[i]).storage_scheme
             new == update_payment_intent(data.payment_intent,
                                          IntentRejectUpdate(scheme))
             refused == /\ IsSome(intents[data.payment_intent.payment_id])
                        /\ Unwrap(intents[data.payment_intent.payment_id]).status
                              \in RejectNotAllowedStatuses
             stored == fault = "none" /\ IsSome(new) /\ ~refused
             outcome == IF refused THEN "InvalidStatusTransition"
                        ELSE UpdateOutcome(fault, new)
         IN /\ IF stored
               THEN /\ intents' = [intents EXCEPT
                                     ![data.payment_intent.payment_id] = new]
                    /\ ws' = [ws EXCEPT ![i] =
                                Some([data EXCEPT !.payment_intent = Unwrap(new)])]
                    /\ UNCHANGED faulted
               ELSE /\ faulted' = [faulted EXCEPT ![i] = fault # "none"]
                    /\ UNCHANGED <<intents, ws>>
            /\ IF outcome = "Ok"
               THEN /\ pc' = [pc EXCEPT ![i] = "update_attempt"]
                    /\ UNCHANGED result
               ELSE /\ result' = [result EXCEPT ![i] = outcome]
                    /\ pc' = [pc EXCEPT ![i] = "release"]
    /\ UNCHANGED <<attempts, staticvars, audit, lock, req, vres, acquires, reads,
                   guarded>>

\* update_trackers, first statement: update_payment_intent(..).await
\*     .to_not_found_response(PaymentNotFound)?
UpdateIntent(i) ==
    /\ pc[i] = "update_intent"
    /\ UNCHANGED <<custvars, vaultvars, ephvars>>
    /\ writes' = [writes EXCEPT ![i] = @ + 1]
    /\ \E fault \in UpdateFaults :
         LET data == Unwrap(ws[i])
             scheme == Unwrap(vres[i]).storage_scheme
             new == update_payment_intent(data.payment_intent,
                                          IntentRejectUpdate(scheme))
             stored == fault = "none" /\ IsSome(new)
             outcome == UpdateOutcome(fault, new)
         IN /\ IF stored
               THEN /\ intents' = [intents EXCEPT
                                     ![data.payment_intent.payment_id] = new]
                    /\ ws' = [ws EXCEPT ![i] =
                                Some([data EXCEPT !.payment_intent = Unwrap(new)])]
                    /\ UNCHANGED faulted
               ELSE /\ faulted' = [faulted EXCEPT ![i] = fault # "none"]
                    /\ UNCHANGED <<intents, ws>>
            /\ IF outcome = "Ok"
               THEN /\ pc' = [pc EXCEPT ![i] = "update_attempt"]
                    /\ UNCHANGED result
               ELSE /\ result' = [result EXCEPT ![i] = outcome]
                    /\ pc' = [pc EXCEPT ![i] = "release"]
    /\ UNCHANGED <<attempts, staticvars, audit, lock, req, vres, acquires, reads,
                   guarded>>

\* an update_trackers that returns without emitting the audit event
emit_audit_event_never(i, outcome, payment_data) == audit

\* req_state.event_context.event(AuditEvent::new(PaymentReject {..}))
\*     .with(payment_data.to_event()).emit(): the audit stream after
\* update_trackers has returned `outcome`; the statement is reached only
\* when neither update returned through `?`
emit_audit_event(i, outcome, payment_data) ==
    IF outcome = "Ok"
    THEN Append(audit, PaymentRejectEvent(i, payment_data))
    ELSE audit

\* an update_trackers that returns the attempt it was given
payment_data_with_attempt_stale(payment_data, stored, new) == payment_data

\* payment_data.payment_attempt = update_payment_attempt_with_attempt_id(..)
\*     .await...?: the Working Set after the attempt update
payment_data_with_attempt(payment_data, stored, new) ==
    IF stored
    THEN [payment_data EXCEPT !.payment_attempt = Unwrap(new)]
    ELSE payment_data

\* an update_trackers whose attempt statement is keyed by the payment only:
\* it changes every attempt of the payment
UpdateAttemptOfPayment(i) ==
    /\ pc[i] = "update_attempt"
    /\ UNCHANGED <<custvars, vaultvars, ephvars>>
    /\ writes' = [writes EXCEPT ![i] = @ + 1]
    /\ \E fault \in UpdateFaults :
         LET data == Unwrap(ws[i])
             scheme == Unwrap(vres[i]).storage_scheme
             update == AttemptRejectUpdate(data.frm_message, scheme)
             new == update_payment_attempt_with_attempt_id(data.payment_attempt, update)
             stored == fault = "none" /\ IsSome(new)
             data2 == payment_data_with_attempt(data, stored, new)
             outcome == UpdateOutcome(fault, new)
         IN /\ IF stored
               THEN /\ attempts' =
                         [a \in AttemptIds |->
                            IF /\ IsSome(attempts[a])
                               /\ Unwrap(attempts[a]).payment_id
                                    = data.payment_attempt.payment_id
                            THEN update_payment_attempt_with_attempt_id(
                                     Unwrap(attempts[a]), update)
                            ELSE attempts[a]]
                    /\ ws' = [ws EXCEPT ![i] = Some(data2)]
                    /\ UNCHANGED faulted
               ELSE /\ faulted' = [faulted EXCEPT ![i] = fault # "none"]
                    /\ UNCHANGED <<attempts, ws>>
            /\ audit' = emit_audit_event(i, outcome, data2)
            /\ result' = [result EXCEPT ![i] = outcome]
    /\ pc' = [pc EXCEPT ![i] = "release"]
    /\ UNCHANGED <<intents, staticvars, lock, req, vres, acquires, reads, guarded>>

\* update_trackers, second statement and the audit event:
\* update_payment_attempt_with_attempt_id(..).await
\*     .to_not_found_response(PaymentNotFound)?, then event(..).emit(), then Ok
UpdateAttempt(i) ==
    /\ pc[i] = "update_attempt"
    /\ UNCHANGED <<custvars, vaultvars, ephvars>>
    /\ writes' = [writes EXCEPT ![i] = @ + 1]
    /\ \E fault \in UpdateFaults :
         LET data == Unwrap(ws[i])
             scheme == Unwrap(vres[i]).storage_scheme
             new == update_payment_attempt_with_attempt_id(
                        data.payment_attempt,
                        AttemptRejectUpdate(data.frm_message, scheme))
             stored == fault = "none" /\ IsSome(new)
             data2 == payment_data_with_attempt(data, stored, new)
             outcome == UpdateOutcome(fault, new)
         IN /\ IF stored
               THEN /\ attempts' = [attempts EXCEPT
                                      ![data.payment_attempt.attempt_id] = new]
                    /\ ws' = [ws EXCEPT ![i] = Some(data2)]
                    /\ UNCHANGED faulted
               ELSE /\ faulted' = [faulted EXCEPT ![i] = fault # "none"]
                    /\ UNCHANGED <<attempts, ws>>
            /\ audit' = emit_audit_event(i, outcome, data2)
            /\ result' = [result EXCEPT ![i] = outcome]
    /\ pc' = [pc EXCEPT ![i] = "release"]
    /\ UNCHANGED <<intents, staticvars, lock, req, vres, acquires, reads, guarded>>

\* another component deletes the intent row of a payment while a
\* Cancel/Reject invocation on it stands between GetTracker and the end of
\* UpdateTracker (the deletion does not take the payment's lock)
ConcurrentDeleteIntent ==
    /\ \E i \in Invocations :
         /\ pc[i] \in {"domain", "update_intent", "update_attempt"}
         /\ IsSome(intents[req[i].payment_id])
         /\ intents' = [intents EXCEPT ![req[i].payment_id] = None]
    /\ UNCHANGED <<attempts, staticvars, audit, lock, pc, req, vres, ws, result,
                   acquires, reads, writes, guarded, faulted>>
    /\ UNCHANGED <<custvars, vaultvars, ephvars>>

\* another component deletes the attempt row a Working Set was built from
\* while its invocation stands between GetTracker and the end of
\* UpdateTracker
ConcurrentDeleteAttempt ==
    /\ \E i \in Invocations :
         /\ pc[i] \in {"domain", "update_intent", "update_attempt"}
         /\ IsSome(attempts[Unwrap(ws[i]).payment_attempt.attempt_id])
         /\ attempts' = [attempts EXCEPT
                           ![Unwrap(ws[i]).payment_attempt.attempt_id] = None]
    /\ UNCHANGED <<intents, staticvars, audit, lock, pc, req, vres, ws, result,
                   acquires, reads, writes, guarded, faulted>>
    /\ UNCHANGED <<custvars, vaultvars, ephvars>>

\* a coordinator that releases only after a successful body
ReleaseLockOnSuccessOnly(i) ==
    /\ pc[i] = "release"
    /\ UNCHANGED <<custvars, vaultvars, ephvars>>
    /\ lock' = [lock EXCEPT ![req[i].payment_id] =
                  IF @ = i /\ result[i] = "Ok" THEN NoHolder ELSE @]
    /\ ws' = [ws EXCEPT ![i] = None]
    /\ vres' = [vres EXCEPT ![i] = None]
    /\ pc' = [pc EXCEPT ![i] = "done"]
    /\ UNCHANGED <<intents, attempts, staticvars, audit, req, result,
                   acquires, reads, writes, guarded, faulted>>

\* Locking Coordinator: release(lock-handle) after the body has returned, on
\* success and on error alike; the Working Set is discarded
ReleaseLock(i) ==
    /\ pc[i] = "release"
    /\ UNCHANGED <<custvars, vaultvars, ephvars>>
    /\ lock' = [lock EXCEPT ![req[i].payment_id] =
                  IF @ = i THEN NoHolder ELSE @]
    /\ ws' = [ws EXCEPT ![i] = None]
    /\ vres' = [vres EXCEPT ![i] = None]
    /\ pc' = [pc EXCEPT ![i] = "done"]
    /\ UNCHANGED <<intents, attempts, staticvars, audit, req, result,
                   acquires, reads, writes, guarded, faulted>>

\* ------------------------------------------------------------------------
\* Customers (core/customers.rs)
\* ------------------------------------------------------------------------
Merchants == {"m_1", "m_2"}

\* customers::CustomerRequest values the calls are drawn from; merchant_id is
\* the field of the request body
CustomerRequests ==
    { [ customer_id |-> "cust_1", merchant_id |-> "m_1", name |-> Some("Alice"),
        email |-> Some("alice@example.com"), phone |-> Some("111"),
        description |-> Some("first"), phone_country_code |-> Some("+1"),
        metadata |-> None ],
      [ customer_id |-> "cust_1", merchant_id |-> "m_2", name |-> Some("Bob"),
        email |-> None, phone |-> Some("222"),
        description |-> None, phone_country_code |-> Some("+49"),
        metadata |-> Some("vip") ],
      [ customer_id |-> "cust_2", merchant_id |-> "m_1", name |-> Some("Carol"),
        email |-> Some("not-an-email"), phone |-> None,
        description |-> None, phone_country_code |-> None,
        metadata |-> None ] }

NoCustomerRequest ==
    [ auth |-> "",
      data |-> [ customer_id |-> "", merchant_id |-> "", name |-> None,
                 email |-> None, phone |-> None, description |-> None,
                 phone_country_code |-> None, metadata |-> None ] ]

\* CustomerRequestExt::validate: Ok(self) unless a field is malformed
validate(customer_data) == customer_data.email # Some("not-an-email")

\* a CustomerNew that takes the merchant id of the request body
CustomerNewOfRequestBody(merchant_account, customer_data) ==
    [ customer_id |-> customer_data.customer_id,
      merchant_id |-> customer_data.merchant_id,
      name |-> customer_data.name,
      email |-> customer_data.email,
      phone |-> customer_data.phone,
      description |-> customer_data.description,
      phone_country_code |-> customer_data.phone_country_code,
      metadata |-> customer_data.metadata ]

\* storage::CustomerNew built by create_customer: the key is the customer id
\* of the request and the merchant id of the merchant account
CustomerNew(merchant_account, customer_data) ==
    [ customer_id |-> customer_data.customer_id,
      merchant_id |-> merchant_account,
      name |-> customer_data.name,
      email |-> customer_data.email,
      phone |-> customer_data.phone,
      description |-> customer_data.description,
      phone_country_code |-> customer_data.phone_country_code,
      metadata |-> customer_data.metadata ]

\* find_customer_by_customer_id_merchant_id: the rows stored under the key
find_customer_by_customer_id_merchant_id(customer_id, merchant_id) ==
    { c \in customers : c.customer_id = customer_id /\ c.merchant_id = merchant_id }

\* insert_customer: the unique constraint on (customer_id, merchant_id)
is_db_unique_violation(new_customer) ==
    find_customer_by_customer_id_merchant_id(
        new_customer.customer_id, new_customer.merchant_id) # {}

\* From<storage::Customer> for customers::CustomerResponse
CustomerResponse(customer) ==
    [ customer_id |-> customer.customer_id,
      name |-> customer.name,
      email |-> customer.email,
      phone |-> customer.phone,
      description |-> customer.description,
      phone_country_code |-> customer.phone_country_code,
      metadata |-> customer.metadata ]

\* outcomes of one storage call other than those decided by the stored rows
StorageFaults == {"none", "error"}

CustInit ==
    /\ customers \in
         { {},
           { CustomerNew("m_1",
               [ customer_id |-> "cust_1", merchant_id |-> "m_1",
                 name |-> Some("Zed"), email |-> None, phone |-> None,
                 description |-> Some("stored earlier"),
                 phone_country_code |-> None, metadata |-> None ]) } }
    /\ cpc = [j \in CustomerCalls |-> "idle"]
    /\ creq = [j \in CustomerCalls |-> NoCustomerRequest]
    /\ cinsert = [j \in CustomerCalls |-> "none"]
    /\ cfetch = [j \in CustomerCalls |-> "none"]
    /\ cfetches = [j \in CustomerCalls |-> 0]
    /\ cresult = [j \in CustomerCalls |-> "none"]
    /\ cresponse = [j \in CustomerCalls |-> None]

\* the transport layer hands a create request of an authenticated merchant
\* to call j
CreateStart(j) ==
    /\ cpc[j] = "idle"
    /\ \A k \in CustomerCalls : k < j => cpc[k] # "idle"
    /\ \E m \in Merchants, d \in CustomerRequests :
         creq' = [creq EXCEPT ![j] = [auth |-> m, data |-> d]]
    /\ cpc' = [cpc EXCEPT ![j] = "validate"]
    /\ UNCHANGED <<customers, cinsert, cfetch, cfetches, cresult, cresponse>>
    /\ UNCHANGED <<payvars, vaultvars, ephvars, mandates, payment_methods, locker, customer_addresses,
                   dpms, cfail, clog>>

\* create_customer up to the insert: customer_data.validate()?
CreateValidate(j) ==
    /\ cpc[j] = "validate"
    /\ IF validate(creq[j].data)
       THEN /\ cpc' = [cpc EXCEPT ![j] = "insert"]
            /\ UNCHANGED cresult
       ELSE /\ cpc' = [cpc EXCEPT ![j] = "done"]
            /\ cresult' = [cresult EXCEPT ![j] = "ValidationError"]
    /\ UNCHANGED <<customers, creq, cinsert, cfetch, cfetches, cresponse>>
    /\ UNCHANGED <<payvars, vaultvars, ephvars, mandates, payment_methods, locker, customer_addresses,
                   dpms, cfail, clog>>

\* outcome of db.insert_customer(new_customer): the unique constraint on
\* (customer_id, merchant_id) decides unless the storage fails otherwise
insert_customer(fault, new_customer) ==
    IF fault = "error" THEN "error"
    ELSE IF is_db_unique_violation(new_customer) THEN "unique_violation"
    ELSE "ok"

\* a create that reports the conflict instead of fetching
create_customer_match_conflict_surfaced(outcome) ==
    CASE outcome = "ok" -> "return"
      [] OTHER -> "fail"

\* a create that tries the fetch after any insert error
create_customer_match_fetch_on_any_error(outcome) ==
    CASE outcome = "ok" -> "return"
      [] OTHER -> "fetch"

\* the match on the insert result in create_customer: Ok(customer) is
\* returned, a unique violation leads to the compensating fetch, any other
\* error is returned as InternalServerError
create_customer_match(outcome) ==
    CASE outcome = "ok" -> "return"
      [] outcome = "unique_violation" -> "fetch"
      [] OTHER -> "fail"

\* a create that answers with the customer of its own request
create_customer_response_echo(customer, new_customer) ==
    CustomerResponse(new_customer)

\* Ok(services::BachResponse::Json(customer.into())): the answer is made of
\* the customer the storage returned
create_customer_response(customer, new_customer) ==
    CustomerResponse(customer)

\* create_customer: match db.insert_customer(new_customer).await
CreateInsert(j) ==
    /\ cpc[j] = "insert"
    /\ \E fault \in StorageFaults :
         LET new_customer == CustomerNew(creq[j].auth, creq[j].data)
             outcome == insert_customer(fault, new_customer)
             arm == create_customer_match(outcome)
         IN /\ cinsert' = [cinsert EXCEPT ![j] = outcome]
            /\ cfail' = [cfail EXCEPT ![j] =
                           IF outcome = "ok" THEN None
                           ELSE Some(<<"insert_customer", outcome>>)]
            /\ IF outcome = "ok"
               THEN customers' = customers \cup {new_customer}
               ELSE UNCHANGED customers
            /\ CASE arm = "return" ->
                      /\ cresponse' = [cresponse EXCEPT ![j] =
                           Some(create_customer_response(new_customer, new_customer))]
                      /\ cresult' = [cresult EXCEPT ![j] = "Ok"]
                      /\ cpc' = [cpc EXCEPT ![j] = "done"]
                 [] arm = "fetch" ->
                      /\ cpc' = [cpc EXCEPT ![j] = "fetch"]
                      /\ UNCHANGED <<cresult, cresponse>>
                 [] OTHER ->
                      /\ cresult' = [cresult EXCEPT ![j] = "InternalServerError"]
                      /\ cpc' = [cpc EXCEPT ![j] = "done"]
                      /\ UNCHANGED cresponse
    /\ UNCHANGED <<creq, cfetch, cfetches>>
    /\ UNCHANGED <<payvars, vaultvars, ephvars, mandates, payment_methods, locker, customer_addresses,
                   dpms, clog>>

\* create_customer: db.find_customer_by_customer_id_merchant_id(..).await
\*     .change_context(InternalServerError)?
CreateFetch(j) ==
    /\ cpc[j] = "fetch"
    /\ cfetches' = [cfetches EXCEPT ![j] = @ + 1]
    /\ \E fault \in StorageFaults :
         LET found == find_customer_by_customer_id_merchant_id(
                          creq[j].data.customer_id, creq[j].auth)
             new_customer == CustomerNew(creq[j].auth, creq[j].data)
         IN IF fault = "error" \/ found = {}
            THEN /\ cfetch' = [cfetch EXCEPT ![j] =
                                 IF fault = "error" THEN "error" ELSE "not_found"]
                 /\ cfail' = [cfail EXCEPT ![j] =
                      Some(<<"find_customer_by_customer_id_merchant_id",
                             IF fault = "error" THEN "error" ELSE "not_found">>)]
                 /\ cresult' = [cresult EXCEPT ![j] = "InternalServerError"]
                 /\ UNCHANGED cresponse
            ELSE /\ cfetch' = [cfetch EXCEPT ![j] = "ok"]
                 /\ UNCHANGED cfail
                 /\ \E c \in found :
                      cresponse' = [cresponse EXCEPT ![j] =
                           Some(create_customer_response(c, new_customer))]
                 /\ cresult' = [cresult EXCEPT ![j] = "Ok"]
    /\ cpc' = [cpc EXCEPT ![j] = "done"]
    /\ UNCHANGED <<customers, creq, cinsert>>
    /\ UNCHANGED <<payvars, vaultvars, ephvars, mandates, payment_methods, locker, customer_addresses,
                   dpms, clog>>

\* ------------------------------------------------------------------------
\* delete_customer (core/customers.rs)
\* ------------------------------------------------------------------------
Redacted == "Redacted"

CustomerIds == {"cust_1", "cust_2"}

MandateRow(mid, cid, mandate_id, status) ==
    [ mandate_id |-> mandate_id, customer_id |-> cid, merchant_id |-> mid,
      mandate_status |-> status ]

PaymentMethodRow(mid, cid, pm_id, kind) ==
    [ payment_method_id |-> pm_id, customer_id |-> cid, merchant_id |-> mid,
      payment_method |-> kind ]

\* the columns of an address that delete_customer redacts
AddressColumns ==
    { "city", "country", "line1", "line2", "line3", "state", "zip",
      "first_name", "last_name", "phone_number", "country_code" }

AddressRow(mid, cid, address_id, city) ==
    [ address_id |-> address_id, customer_id |-> cid, merchant_id |-> mid,
      columns |-> [c \in AddressColumns |->
                     IF c = "city" THEN Some(city) ELSE None] ]

\* storage::AddressUpdate::Update built by delete_customer
RedactAddressUpdate == [c \in AddressColumns |-> Some(Redacted)]

\* a redaction that leaves the customer's name as it was
RedactCustomerUpdateKeepingName ==
    [ name |-> None,
      email |-> Some(Redacted),
      phone |-> Some(Redacted),
      description |-> Some(Redacted),
      phone_country_code |-> Some(Redacted),
      metadata |-> None ]

\* storage::CustomerUpdate::Update built by delete_customer
RedactCustomerUpdate ==
    [ name |-> Some(Redacted),
      email |-> Some(Redacted),
      phone |-> Some(Redacted),
      description |-> Some(Redacted),
      phone_country_code |-> Some(Redacted),
      metadata |-> None ]

\* update_address_by_merchant_id_customer_id: every address of the customer
\* with the columns the update names set
update_address_by_merchant_id_customer_id(customer_id, merchant_id, update) ==
    { IF a.customer_id = customer_id /\ a.merchant_id = merchant_id
      THEN [a EXCEPT !.columns =
              [c \in AddressColumns |->
                 IF IsSome(update[c]) THEN update[c] ELSE a.columns[c]]]
      ELSE a : a \in customer_addresses }

\* update_customer_by_customer_id_merchant_id: the row of the key with the
\* columns the update names set (a column given as None is left alone)
CustomerRowUpdated(row, update) ==
    [ customer_id |-> row.customer_id,
      merchant_id |-> row.merchant_id,
      name |-> IF IsSome(update.name) THEN update.name ELSE row.name,
      email |-> IF IsSome(update.email) THEN update.email ELSE row.email,
      phone |-> IF IsSome(update.phone) THEN update.phone ELSE row.phone,
      description |-> IF IsSome(update.description)
                      THEN update.description ELSE row.description,
      phone_country_code |-> IF IsSome(update.phone_country_code)
                             THEN update.phone_country_code
                             ELSE row.phone_country_code,
      metadata |-> IF IsSome(update.metadata) THEN update.metadata ELSE row.metadata ]

\* a storage that answers the update by removing the row of the key
remove_customer_by_customer_id_merchant_id(customer_id, merchant_id, update) ==
    { c \in customers : ~ (c.customer_id = customer_id /\ c.merchant_id = merchant_id) }

update_customer_by_customer_id_merchant_id(customer_id, merchant_id, update) ==
    { IF c.customer_id = customer_id /\ c.merchant_id = merchant_id
      THEN CustomerRowUpdated(c, update) ELSE c : c \in customers }

find_mandate_by_merchant_id_customer_id(merchant_id, customer_id) ==
    { m \in mandates : m.merchant_id = merchant_id /\ m.customer_id = customer_id }

find_payment_method_by_customer_id_merchant_id_list(customer_id, merchant_id) ==
    { pm \in payment_methods :
        pm.customer_id = customer_id /\ pm.merchant_id = merchant_id }

\* outcomes of a storage call of delete_customer other than success: the
\* storage reports not-found, or it fails otherwise
DeleteFaults == {"none", "not_found", "error"}

\* error.to_not_found_response(response): a not-found becomes `response`,
\* any other storage error InternalServerError
err_to_not_found_response(fault, response) ==
    IF fault = "not_found" THEN response ELSE "InternalServerError"

\* an address redaction whose errors go through to_not_found_response
address_redaction_error_distinguished(fault) ==
    err_to_not_found_response(fault, "AddressNotFound")

\* .change_context(errors::ApiErrorResponse::AddressNotFound)? on the
\* address redaction: every error of the call becomes AddressNotFound
address_redaction_error(fault) == "AddressNotFound"

\* .change_context(errors::ApiErrorResponse::CustomerNotFound)? on the
\* customer redaction: every error of the call becomes CustomerNotFound
customer_redaction_error(fault) == "CustomerNotFound"

\* CustomerDeleteResponse of a completed delete_customer
CustomerDeleteResponse(customer_id) ==
    [ customer_id |-> customer_id, customer_deleted |-> TRUE,
      address_deleted |-> TRUE, payment_methods_deleted |-> TRUE ]

\* the variables of a create_customer call, which delete_customer leaves alone
createvars == <<cinsert, cfetch, cfetches>>

\* delete_customer returns `error`; `failure` is the storage call that failed
DeleteEnds(j, error, failure) ==
    /\ cresult' = [cresult EXCEPT ![j] = error]
    /\ cfail' = [cfail EXCEPT ![j] = failure]
    /\ cpc' = [cpc EXCEPT ![j] = "done"]

\* the transport layer hands a delete request (a CustomerId) of an
\* authenticated merchant to call j
DeleteStart(j) ==
    /\ cpc[j] = "idle"
    /\ \A k \in CustomerCalls : k < j => cpc[k] # "idle"
    /\ \E m \in Merchants, c \in CustomerIds :
         creq' = [creq EXCEPT ![j] =
                    [auth |-> m,
                     data |-> [NoCustomerRequest.data EXCEPT !.customer_id = c]]]
    /\ cpc' = [cpc EXCEPT ![j] = "d_find"]
    /\ UNCHANGED <<customers, createvars, cresult, cresponse, opsvars>>
    /\ UNCHANGED <<payvars, vaultvars, ephvars>>

\* delete_customer: find_customer_by_customer_id_merchant_id(..)
\*     .map_err(to_not_found_response(CustomerNotFound))?, then the check of
\* the name against "Redacted"
DeleteFind(j) ==
    /\ cpc[j] = "d_find"
    /\ \E fault \in StorageFaults :
         LET call == "find_customer_by_customer_id_merchant_id"
             found == find_customer_by_customer_id_merchant_id(
                          creq[j].data.customer_id, creq[j].auth)
         IN IF fault = "error"
            THEN DeleteEnds(j, err_to_not_found_response("error", "CustomerNotFound"),
                            Some(<<call, "error">>))
            ELSE IF found = {}
            THEN DeleteEnds(j, err_to_not_found_response("not_found", "CustomerNotFound"),
                            Some(<<call, "not_found">>))
            ELSE IF \E cust \in found : cust.name = Some(Redacted)
            THEN DeleteEnds(j, "CustomerRedacted", None)
            ELSE /\ cpc' = [cpc EXCEPT ![j] = "d_mandates"]
                 /\ UNCHANGED <<cresult, cfail>>
    /\ UNCHANGED <<customers, creq, createvars, cresponse, mandates, payment_methods,
                   locker, customer_addresses, dpms, clog>>
    /\ UNCHANGED <<payvars, vaultvars, ephvars>>

\* a delete_customer whose loop over the mandates lets an Active one pass
DeleteMandatesUnchecked(j) ==
    /\ cpc[j] = "d_mandates"
    /\ \E fault \in DeleteFaults :
         LET call == "find_mandate_by_merchant_id_customer_id"
         IN IF fault # "none"
            THEN DeleteEnds(j, err_to_not_found_response(fault, "MandateNotFound"),
                            Some(<<call, fault>>))
            ELSE /\ cpc' = [cpc EXCEPT ![j] = "d_pm_list"]
                 /\ UNCHANGED <<cresult, cfail>>
    /\ UNCHANGED <<customers, creq, createvars, cresponse, mandates, payment_methods,
                   locker, customer_addresses, dpms, clog>>
    /\ UNCHANGED <<payvars, vaultvars, ephvars>>

\* delete_customer: find_mandate_by_merchant_id_customer_id(..)
\*     .map_err(to_not_found_response(MandateNotFound))?, then the loop that
\* fails with MandateActive on an Active mandate
DeleteMandates(j) ==
    /\ cpc[j] = "d_mandates"
    /\ \E fault \in DeleteFaults :
         LET call == "find_mandate_by_merchant_id_customer_id"
             customer_mandates == find_mandate_by_merchant_id_customer_id(
                                      creq[j].auth, creq[j].data.customer_id)
         IN IF fault # "none"
            THEN DeleteEnds(j, err_to_not_found_response(fault, "MandateNotFound"),
                            Some(<<call, fault>>))
            ELSE IF \E mandate \in customer_mandates : mandate.mandate_status = "Active"
            THEN DeleteEnds(j, "MandateActive", None)
            ELSE /\ cpc' = [cpc EXCEPT ![j] = "d_pm_list"]
                 /\ UNCHANGED <<cresult, cfail>>
    /\ UNCHANGED <<customers, creq, createvars, cresponse, mandates, payment_methods,
                   locker, customer_addresses, dpms, clog>>
    /\ UNCHANGED <<payvars, vaultvars, ephvars>>

\* the orders in which a set of rows can come back as a list
ListsOf(rows) ==
    { q \in [1..Cardinality(rows) -> rows] :
        \A a, b \in 1..Cardinality(rows) : q[a] = q[b] => a = b }

\* delete_customer: find_payment_method_by_customer_id_merchant_id_list(..)
\*     .map_err(to_not_found_response(PaymentMethodNotFound))?
DeletePmList(j) ==
    /\ cpc[j] = "d_pm_list"
    /\ \E fault \in DeleteFaults :
         LET call == "find_payment_method_by_customer_id_merchant_id_list"
             found == find_payment_method_by_customer_id_merchant_id_list(
                          creq[j].data.customer_id, creq[j].auth)
         IN IF fault # "none"
            THEN /\ DeleteEnds(j, err_to_not_found_response(fault, "PaymentMethodNotFound"),
                               Some(<<call, fault>>))
                 /\ UNCHANGED dpms
            ELSE /\ \E customer_payment_methods \in ListsOf(found) :
                      dpms' = [dpms EXCEPT ![j] = customer_payment_methods]
                 /\ cpc' = [cpc EXCEPT ![j] =
                              IF found = {} THEN "d_address" ELSE "d_pm"]
                 /\ UNCHANGED <<cresult, cfail>>
    /\ UNCHANGED <<customers, creq, createvars, cresponse, mandates, payment_methods,
                   locker, customer_addresses, clog>>
    /\ UNCHANGED <<payvars, vaultvars, ephvars>>

\* a loop body that notes a failed vault deletion and goes on to the row
DeleteCardContinuing(j) ==
    /\ cpc[j] = "d_pm"
    /\ Head(dpms[j]).payment_method = "Card"
    /\ \E fault \in StorageFaults :
         IF fault = "error"
         THEN /\ cfail' = [cfail EXCEPT ![j] = Some(<<"delete_card", "error">>)]
              /\ UNCHANGED <<locker, clog>>
         ELSE /\ locker' = locker \ {Head(dpms[j]).payment_method_id}
              /\ clog' = [clog EXCEPT ![j] = Append(@, "delete_card")]
              /\ UNCHANGED cfail
    /\ cpc' = [cpc EXCEPT ![j] = "d_pm_row"]
    /\ UNCHANGED <<customers, creq, createvars, cresult, cresponse, mandates,
                   payment_methods, customer_addresses, dpms>>
    /\ UNCHANGED <<payvars, vaultvars, ephvars>>

\* delete_customer, loop body for a card: cards::delete_card(..).await?
\* removes the card from the vault before the row is deleted
DeleteCard(j) ==
    /\ cpc[j] = "d_pm"
    /\ Head(dpms[j]).payment_method = "Card"
    /\ \E fault \in StorageFaults :
         IF fault = "error"
         THEN /\ DeleteEnds(j, "VaultError", Some(<<"delete_card", "error">>))
              /\ UNCHANGED <<locker, clog>>
         ELSE /\ locker' = locker \ {Head(dpms[j]).payment_method_id}
              /\ clog' = [clog EXCEPT ![j] = Append(@, "delete_card")]
              /\ cpc' = [cpc EXCEPT ![j] = "d_pm_row"]
              /\ UNCHANGED <<cresult, cfail>>
    /\ UNCHANGED <<customers, creq, createvars, cresponse, mandates, payment_methods,
                   customer_addresses, dpms>>
    /\ UNCHANGED <<payvars, vaultvars, ephvars>>

\* delete_customer, loop body: delete_payment_method_by_merchant_id_
\* payment_method_id(..).map_err(to_not_found_response(PaymentMethodNotFound))?
DeletePmRow(j) ==
    /\ \/ cpc[j] = "d_pm_row"
       \/ cpc[j] = "d_pm" /\ Head(dpms[j]).payment_method # "Card"
    /\ \E fault \in DeleteFaults :
         LET call == "delete_payment_method_by_merchant_id_payment_method_id"
             pm == Head(dpms[j])
             outcome == IF fault = "none" /\ pm \notin payment_methods
                        THEN "not_found" ELSE fault
         IN IF outcome # "none"
            THEN /\ DeleteEnds(j, err_to_not_found_response(outcome,
                                                           "PaymentMethodNotFound"),
                               Some(<<call, outcome>>))
                 /\ UNCHANGED <<payment_methods, dpms, clog>>
            ELSE /\ payment_methods' = payment_methods \ {pm}
                 /\ clog' = [clog EXCEPT ![j] = Append(@, "delete_payment_method")]
                 /\ dpms' = [dpms EXCEPT ![j] = Tail(@)]
                 /\ cpc' = [cpc EXCEPT ![j] =
                              IF Tail(dpms[j]) = <<>> THEN "d_address" ELSE "d_pm"]
                 /\ UNCHANGED <<cresult, cfail>>
    /\ UNCHANGED <<customers, creq, createvars, cresponse, mandates, locker,
                   customer_addresses>>
    /\ UNCHANGED <<payvars, vaultvars, ephvars>>

\* delete_customer: update_address_by_merchant_id_customer_id(.., update_address)
\*     .await.change_context(AddressNotFound)?
DeleteAddress(j) ==
    /\ cpc[j] = "d_address"
    /\ \E fault \in DeleteFaults :
         IF fault # "none"
         THEN /\ DeleteEnds(j, address_redaction_error(fault),
                            Some(<<"update_address_by_merchant_id_customer_id", fault>>))
              /\ UNCHANGED <<customer_addresses, clog>>
         ELSE /\ customer_addresses' =
                   update_address_by_merchant_id_customer_id(
                       creq[j].data.customer_id, creq[j].auth, RedactAddressUpdate)
              /\ clog' = [clog EXCEPT ![j] = Append(@, "update_address")]
              /\ cpc' = [cpc EXCEPT ![j] = "d_customer"]
              /\ UNCHANGED <<cresult, cfail>>
    /\ UNCHANGED <<customers, creq, createvars, cresponse, mandates, payment_methods,
                   locker, dpms>>
    /\ UNCHANGED <<payvars, vaultvars, ephvars>>

\* delete_customer: update_customer_by_customer_id_merchant_id(.., updated_customer)
\*     .await.change_context(CustomerNotFound)?, then the response
DeleteCustomerRow(j) ==
    /\ cpc[j] = "d_customer"
    /\ \E fault \in DeleteFaults :
         IF fault # "none"
         THEN /\ DeleteEnds(j, customer_redaction_error(fault),
                            Some(<<"update_customer_by_customer_id_merchant_id", fault>>))
              /\ UNCHANGED <<customers, clog, cresponse>>
         ELSE /\ customers' =
                   update_customer_by_customer_id_merchant_id(
                       creq[j].data.customer_id, creq[j].auth, RedactCustomerUpdate)
              /\ clog' = [clog EXCEPT ![j] = Append(@, "update_customer")]
              /\ cresponse' = [cresponse EXCEPT ![j] =
                                 Some(CustomerDeleteResponse(creq[j].data.customer_id))]
              /\ DeleteEnds(j, "Ok", None)
    /\ UNCHANGED <<creq, createvars, mandates, payment_methods, locker,
                   customer_addresses, dpms>>
    /\ UNCHANGED <<payvars, vaultvars, ephvars>>

\* ------------------------------------------------------------------------
\* retrieve_customer and update_customer (core/customers.rs)
\* ------------------------------------------------------------------------
\* the transport layer hands a retrieve request (a CustomerId) of an
\* authenticated merchant to call j
RetrieveStart(j) ==
    /\ cpc[j] = "idle"
    /\ \A k \in CustomerCalls : k < j => cpc[k] # "idle"
    /\ \E m \in Merchants, c \in CustomerIds :
         creq' = [creq EXCEPT ![j] =
                    [auth |-> m,
                     data |-> [NoCustomerRequest.data EXCEPT !.customer_id = c]]]
    /\ cpc' = [cpc EXCEPT ![j] = "r_find"]
    /\ UNCHANGED <<customers, createvars, cresult, cresponse, opsvars>>
    /\ UNCHANGED <<payvars, vaultvars, ephvars>>

\* retrieve_customer: find_customer_by_customer_id_merchant_id(..)
\*     .map_err(to_not_found_response(CustomerNotFound))?, then the response
RetrieveCustomer(j) ==
    /\ cpc[j] = "r_find"
    /\ \E fault \in StorageFaults :
         LET call == "find_customer_by_customer_id_merchant_id"
             found == find_customer_by_customer_id_merchant_id(
                          creq[j].data.customer_id, creq[j].auth)
             outcome == IF fault = "none" /\ found = {} THEN "not_found" ELSE fault
         IN IF outcome # "none"
            THEN /\ DeleteEnds(j, err_to_not_found_response(outcome, "CustomerNotFound"),
                               Some(<<call, outcome>>))
                 /\ UNCHANGED cresponse
            ELSE /\ \E response \in found :
                      cresponse' = [cresponse EXCEPT ![j] =
                                      Some(CustomerResponse(response))]
                 /\ DeleteEnds(j, "Ok", None)
    /\ UNCHANGED <<customers, creq, createvars, mandates, payment_methods, locker,
                   customer_addresses, dpms, clog>>
    /\ UNCHANGED <<payvars, vaultvars, ephvars>>

\* the transport layer hands an update request of an authenticated merchant
\* to call j
UpdateStart(j) ==
    /\ cpc[j] = "idle"
    /\ \A k \in CustomerCalls : k < j => cpc[k] # "idle"
    /\ \E m \in Merchants, d \in CustomerRequests :
         creq' = [creq EXCEPT ![j] = [auth |-> m, data |-> d]]
    /\ cpc' = [cpc EXCEPT ![j] = "u_update"]
    /\ UNCHANGED <<customers, createvars, cresult, cresponse, opsvars>>
    /\ UNCHANGED <<payvars, vaultvars, ephvars>>

\* storage::CustomerUpdate::Update built by update_customer from the request
CustomerUpdateOf(update_customer) ==
    [ name |-> update_customer.name,
      email |-> update_customer.email,
      phone |-> update_customer.phone,
      phone_country_code |-> update_customer.phone_country_code,
      metadata |-> update_customer.metadata,
      description |-> update_customer.description ]

\* update_customer: update_customer.validate()?, then
\* update_customer_by_customer_id_merchant_id(..)
\*     .map_err(to_not_found_response(CustomerNotFound))?, then the response
UpdateCustomer(j) ==
    /\ cpc[j] = "u_update"
    /\ \E fault \in StorageFaults :
         LET call == "update_customer_by_customer_id_merchant_id"
             customer_id == creq[j].data.customer_id
             found == find_customer_by_customer_id_merchant_id(customer_id, creq[j].auth)
             outcome == IF fault = "none" /\ found = {} THEN "not_found" ELSE fault
         IN IF ~ validate(creq[j].data)
            THEN /\ DeleteEnds(j, "ValidationError", None)
                 /\ UNCHANGED <<customers, cresponse>>
            ELSE IF outcome # "none"
            THEN /\ DeleteEnds(j, err_to_not_found_response(outcome, "CustomerNotFound"),
                               Some(<<call, outcome>>))
                 /\ UNCHANGED <<customers, cresponse>>
            ELSE /\ customers' =
                      update_customer_by_customer_id_merchant_id(
                          customer_id, creq[j].auth, CustomerUpdateOf(creq[j].data))
                 /\ \E c \in found :
                      cresponse' = [cresponse EXCEPT ![j] =
                           Some(CustomerResponse(
                                  CustomerRowUpdated(c, CustomerUpdateOf(creq[j].data))))]
                 /\ DeleteEnds(j, "Ok", None)
    /\ UNCHANGED <<creq, createvars, mandates, payment_methods, locker,
                   customer_addresses, dpms, clog>>
    /\ UNCHANGED <<payvars, vaultvars, ephvars>>

\* ------------------------------------------------------------------------
\* Card-vault request builders (core/payment_methods/transformers.rs)
\* ------------------------------------------------------------------------
\* the three builders: mk_add_locker_request_hs, mk_get_card_request_hs,
\* mk_delete_card_request_hs
VaultBuilders == {"add", "get", "delete"}

\* settings::Jwekey values: a key the encryption library accepts, or one it
\* rejects
Jwekeys ==
    [ vault_private_key : {"priv_1", "bad_key"},
      vault_encryption_key : {"pub_1", "bad_key"} ]

\* settings::Locker
LockerSettings == [host |-> "https://locker", locker_signing_key_id |-> "kid_1"]

\* StoreLockerReq (add) and CardReqBody (get, delete) for one merchant
BuilderPayload(builder, card) ==
    IF builder = "add"
    THEN [ type |-> "StoreLockerReq", merchant_id |-> "m_1",
           merchant_customer_id |-> "cust_1", card |-> card ]
    ELSE [ type |-> "CardReqBody", merchant_id |-> "m_1",
           merchant_customer_id |-> "cust_1", card |-> card ]

\* Encode::encode_to_vec: the JSON bytes of a value
encode_to_vec(value) == [json |-> value]

\* encryption::jws_sign_payload: the compact serialisation
\* header.payload.signature as its three dot-separated parts, or an error
jws_sign_payload(payload, kid, private_key) ==
    IF private_key = "bad_key" THEN None
    ELSE Some(<< [alg |-> "RS256", kid |-> kid],
                 payload,
                 [signature_of |-> payload, key |-> private_key] >>)

\* mk_basilisk_req: generate_jws_body over jws.split('.')
generate_jws_body(parts) ==
    IF Len(parts) >= 3
    THEN Some([header |-> parts[1], payload |-> parts[2], signature |-> parts[3]])
    ELSE None

\* encryption::encrypt_jwe: the compact serialisation
\* header.encrypted_key.iv.ciphertext.tag as its five parts, or an error
encrypt_jwe(payload, public_key) ==
    IF public_key = "bad_key" THEN None
    ELSE Some(<< [alg |-> "RSA-OAEP-256", enc |-> "A256GCM"],
                 [key_for |-> public_key],
                 "iv",
                 [ciphertext_of |-> payload, key |-> public_key],
                 "tag" >>)

\* mk_basilisk_req: generate_jwe_body over jwe_encrypted.split('.')
generate_jwe_body(parts) ==
    IF Len(parts) >= 5
    THEN Some([ header |-> parts[1], iv |-> parts[3],
                encrypted_payload |-> parts[4], tag |-> parts[5],
                encrypted_key |-> parts[2] ])
    ELSE None

\* a mk_basilisk_req that wraps the signed payload without encrypting it
mk_basilisk_req_unencrypted(jwekey, jws) ==
    LET jws_body == generate_jws_body(jws)
    IN IF ~IsSome(jws_body) THEN [err |-> "SaveCardFailed", body |-> None]
       ELSE [ err |-> "",
              body |-> Some([ header |-> [alg |-> "none", enc |-> "none"],
                              iv |-> "iv",
                              encrypted_payload |-> encode_to_vec(Unwrap(jws_body)),
                              tag |-> "tag",
                              encrypted_key |-> [key_for |-> "none"] ]) ]

\* mk_basilisk_req: the JweBody of the signed payload under the vault's
\* encryption key, or VaultError::SaveCardFailed
mk_basilisk_req(jwekey, jws) ==
    LET jws_body == generate_jws_body(jws)
        payload == encode_to_vec(Unwrap(jws_body))
        jwe_encrypted == encrypt_jwe(payload, jwekey.vault_encryption_key)
        jwe_body == generate_jwe_body(Unwrap(jwe_encrypted))
    IN IF ~IsSome(jws_body) THEN [err |-> "SaveCardFailed", body |-> None]
       ELSE IF ~IsSome(jwe_encrypted) THEN [err |-> "SaveCardFailed", body |-> None]
       ELSE IF ~IsSome(jwe_body) THEN [err |-> "SaveCardFailed", body |-> None]
       ELSE [err |-> "", body |-> jwe_body]

\* url of the request: locker.host with the path of the builder
BuilderUrl(builder, settings) ==
    <<settings.host,
      CASE builder = "add" -> "/cards/add"
        [] builder = "get" -> "/cards/retrieve"
        [] OTHER -> "/cards/delete">>

\* services::Request::new(Post, url) with the JSON body set
VaultRequest(builder, settings, jwe_payload) ==
    [ method |-> "Post",
      url |-> BuilderUrl(builder, settings),
      content_type |-> "application/json",
      body |-> [Json |-> jwe_payload] ]

NoVaultArgs == [builder |-> "", jwekey |-> [vault_private_key |-> "",
                                            vault_encryption_key |-> ""],
                payload |-> [type |-> "", merchant_id |-> "",
                             merchant_customer_id |-> "", card |-> ""]]

NoVaultResult == [err |-> "", request |-> None]

VaultInit ==
    /\ vpc = [v \in VaultCalls |-> "idle"]
    /\ vargs = [v \in VaultCalls |-> NoVaultArgs]
    /\ vjws = [v \in VaultCalls |-> None]
    /\ vjwe = [v \in VaultCalls |-> None]
    /\ vresult = [v \in VaultCalls |-> NoVaultResult]
    /\ vcalls = [v \in VaultCalls |-> <<>>]

\* a builder is called with its arguments
BuilderStart(v) ==
    /\ vpc[v] = "idle"
    /\ \A u \in VaultCalls : u < v => vpc[u] # "idle"
    /\ \E b \in VaultBuilders, k \in Jwekeys, card \in {"card_1", "card_2"} :
         vargs' = [vargs EXCEPT ![v] =
                     [builder |-> b, jwekey |-> k, payload |-> BuilderPayload(b, card)]]
    /\ vpc' = [vpc EXCEPT ![v] = "sign"]
    /\ UNCHANGED <<vjws, vjwe, vresult, vcalls>>
    /\ UNCHANGED <<payvars, custvars, ephvars>>

\* payload.encode_to_vec()?, then jws_sign_payload(..).await
\*     .change_context(VaultError::RequestEncodingFailed)?
BuilderSign(v) ==
    /\ vpc[v] = "sign"
    /\ LET payload == encode_to_vec(vargs[v].payload)
           jws == jws_sign_payload(payload, LockerSettings.locker_signing_key_id,
                                   vargs[v].jwekey.vault_private_key)
       IN /\ vcalls' = [vcalls EXCEPT ![v] = Append(@, "jws_sign_payload")]
          /\ IF IsSome(jws)
             THEN /\ vjws' = [vjws EXCEPT ![v] = jws]
                  /\ vpc' = [vpc EXCEPT ![v] = "encrypt"]
                  /\ UNCHANGED vresult
             ELSE /\ vresult' = [vresult EXCEPT ![v] =
                                   [err |-> "RequestEncodingFailed", request |-> None]]
                  /\ vpc' = [vpc EXCEPT ![v] = "done"]
                  /\ UNCHANGED vjws
    /\ UNCHANGED <<vargs, vjwe>>
    /\ UNCHANGED <<payvars, custvars, ephvars>>

\* let jwe_payload = mk_basilisk_req(jwekey, &jws, ..).await?
BuilderEncrypt(v) ==
    /\ vpc[v] = "encrypt"
    /\ LET r == mk_basilisk_req(vargs[v].jwekey, Unwrap(vjws[v]))
       IN /\ vcalls' = [vcalls EXCEPT ![v] = Append(@, "encrypt_jwe")]
          /\ IF r.err = ""
             THEN /\ vjwe' = [vjwe EXCEPT ![v] = r.body]
                  /\ vpc' = [vpc EXCEPT ![v] = "request"]
                  /\ UNCHANGED vresult
             ELSE /\ vresult' = [vresult EXCEPT ![v] =
                                   [err |-> r.err, request |-> None]]
                  /\ vpc' = [vpc EXCEPT ![v] = "done"]
                  /\ UNCHANGED vjwe
    /\ UNCHANGED <<vargs, vjws>>
    /\ UNCHANGED <<payvars, custvars, ephvars>>

\* the request is built around the envelope and returned
BuilderReturn(v) ==
    /\ vpc[v] = "request"
    /\ vresult' = [vresult EXCEPT ![v] =
                     [ err |-> "",
                       request |-> Some(VaultRequest(vargs[v].builder, LockerSettings,
                                                     Unwrap(vjwe[v]))) ]]
    /\ vpc' = [vpc EXCEPT ![v] = "done"]
    /\ UNCHANGED <<vargs, vjws, vjwe, vcalls>>
    /\ UNCHANGED <<payvars, custvars, ephvars>>

\* ------------------------------------------------------------------------
\* Ephemeral keys (routes/ephemeral_key.rs)
\* ------------------------------------------------------------------------
EphemeralRoutes == {"ephemeral_key_create", "ephemeral_key_delete"}

EphemeralKeyIds == {"ek_1"}

\* api_locking::LockAction: the two actions of the lock contract
NotApplicable == [kind |-> "NotApplicable", key |-> ""]

Hold(key) == [kind |-> "Hold", key |-> key]

\* the holder id under which a route would keep a lock
RouteHolder(route) == IF route = "ephemeral_key_create" THEN -1 ELSE -2

\* a route that takes the lock of payment pay_1 around its body
ephemeral_key_lock_action_hold(route) == Hold("pay_1")

\* the lock action ephemeral_key_create and ephemeral_key_delete hand to
\* server_wrap
ephemeral_key_lock_action(route) == NotApplicable

\* the payloads of the two routes: the customer of the key to create, the id
\* of the key to delete
EphemeralPayloads(route) ==
    IF route = "ephemeral_key_create" THEN {"cust_1"} ELSE EphemeralKeyIds

\* helpers::make_ephemeral_key: a key is generated for the customer under
\* the merchant of the authenticated account and stored
make_ephemeral_key(customer_id, merchant_id) ==
    LET free == EphemeralKeyIds \ {k.id : k \in ekeys}
    IN  IF free = {}
        THEN [keys |-> ekeys, outcome |-> "InternalServerError"]
        ELSE [keys |-> ekeys \cup
                         { [id |-> CHOOSE id \in free : TRUE,
                            customer_id |-> customer_id,
                            merchant_id |-> merchant_id] },
              outcome |-> "Ok"]

\* helpers::delete_ephemeral_key: the key stored under the id is removed
delete_ephemeral_key(ek_id) ==
    IF \E k \in ekeys : k.id = ek_id
    THEN [keys |-> {k \in ekeys : k.id # ek_id}, outcome |-> "Ok"]
    ELSE [keys |-> ekeys, outcome |-> "InternalServerError"]

\* what a route leaves alone of the payment store
nolockvars == <<intents, attempts, staticvars, audit, pc, req, vres, ws, result,
                acquires, reads, writes, guarded, faulted>>

\* the route is called: the request is authenticated and handed to server_wrap
EphCall(r) ==
    /\ epc[r] = "idle"
    /\ \E payload \in EphemeralPayloads(r) :
          ereq' = [ereq EXCEPT ![r] = payload]
    /\ eresult' = [eresult EXCEPT ![r] = "none"]
    /\ epc' = [epc EXCEPT ![r] = "lock"]
    /\ UNCHANGED <<ekeys, payvars, custvars, vaultvars>>

\* server_wrap performs the lock action of the route before the body:
\* Not-applicable acquires nothing, Acquire-and-hold acquires the key or
\* fails with Conflict
EphLock(r) ==
    /\ epc[r] = "lock"
    /\ LET action == ephemeral_key_lock_action(r)
       IN  IF action.kind = "NotApplicable"
           THEN /\ epc' = [epc EXCEPT ![r] = "body"]
                /\ UNCHANGED <<lock, eresult>>
           ELSE IF lock[action.key] = NoHolder
           THEN /\ lock' = [lock EXCEPT ![action.key] = RouteHolder(r)]
                /\ epc' = [epc EXCEPT ![r] = "body"]
                /\ UNCHANGED eresult
           ELSE /\ eresult' = [eresult EXCEPT ![r] = "Conflict"]
                /\ epc' = [epc EXCEPT ![r] = "idle"]
                /\ UNCHANGED lock
    /\ UNCHANGED <<ereq, ekeys, nolockvars, custvars, vaultvars>>

\* the body closure of the route runs
EphBody(r) ==
    /\ epc[r] = "body"
    /\ LET out == IF r = "ephemeral_key_create"
                  THEN make_ephemeral_key(ereq[r], "m_1")
                  ELSE delete_ephemeral_key(ereq[r])
       IN  /\ ekeys' = out.keys
           /\ eresult' = [eresult EXCEPT ![r] = out.outcome]
    /\ epc' = [epc EXCEPT ![r] = "release"]
    /\ UNCHANGED <<ereq, payvars, custvars, vaultvars>>

\* server_wrap frees what the lock action acquired and answers
EphRelease(r) ==
    /\ epc[r] = "release"
    /\ LET action == ephemeral_key_lock_action(r)
       IN  IF action.kind = "NotApplicable"
           THEN UNCHANGED lock
           ELSE lock' = [lock EXCEPT ![action.key] =
                           IF @ = RouteHolder(r) THEN NoHolder ELSE @]
    /\ epc' = [epc EXCEPT ![r] = "idle"]
    /\ UNCHANGED <<ereq, eresult, ekeys, nolockvars, custvars, vaultvars>>

\* ------------------------------------------------------------------------
\* Specifications
\* ------------------------------------------------------------------------
\* the payment store with nothing in flight, as the customer calls see it
PayQuiet ==
    /\ intents = [p \in PaymentIds |-> None]
    /\ attempts = [a \in AttemptIds |-> None]
    /\ addresses = [a \in AddressIds |-> None]
    /\ frauds = [p \in PaymentIds |-> None]
    /\ profiles = [p \in ProfileIds |-> None]
    /\ audit = <<>>
    /\ lock = [p \in PaymentIds |-> NoHolder]
    /\ pc = [i \in Invocations |-> "idle"]
    /\ req = [i \in Invocations |-> NoRequest]
    /\ vres = [i \in Invocations |-> None]
    /\ ws = [i \in Invocations |-> None]
    /\ result = [i \in Invocations |-> "none"]
    /\ acquires = [i \in Invocations |-> 0]
    /\ reads = [i \in Invocations |-> 0]
    /\ writes = [i \in Invocations |-> 0]
    /\ guarded = [i \in Invocations |-> None]
    /\ faulted = [i \in Invocations |-> FALSE]
    /\ scenario = [stored |-> FALSE, attempt |-> FALSE, status |-> "RequiresCapture",
                   profile |-> None, fraud |-> None]

\* the customer table with no call in flight, as the pipeline sees it
CustQuiet ==
    /\ customers = {}
    /\ cpc = [j \in CustomerCalls |-> "idle"]
    /\ creq = [j \in CustomerCalls |-> NoCustomerRequest]
    /\ cinsert = [j \in CustomerCalls |-> "none"]
    /\ cfetch = [j \in CustomerCalls |-> "none"]
    /\ cfetches = [j \in CustomerCalls |-> 0]
    /\ cresult = [j \in CustomerCalls |-> "none"]
    /\ cresponse = [j \in CustomerCalls |-> None]

\* no mandate, payment method, vault card or customer address stored and no
\* delete_customer in flight
OpsQuiet ==
    /\ mandates = {}
    /\ payment_methods = {}
    /\ locker = {}
    /\ customer_addresses = {}
    /\ dpms = [j \in CustomerCalls |-> <<>>]
    /\ cfail = [j \in CustomerCalls |-> None]
    /\ clog = [j \in CustomerCalls |-> <<>>]

\* no vault request is being built
VaultQuiet == VaultInit

\* no ephemeral key stored and no ephemeral-key route in flight
EphQuiet ==
    /\ epc = [r \in EphemeralRoutes |-> "idle"]
    /\ ereq = [r \in EphemeralRoutes |-> ""]
    /\ eresult = [r \in EphemeralRoutes |-> "none"]
    /\ ekeys = {}

\* Cancel/Reject invocations under the per-payment lock

Init == PayInit /\ CustQuiet /\ OpsQuiet /\ VaultQuiet /\ EphQuiet

Next ==
    \E i \in Invocations :
        \/ Start(i)
        \/ AcquireLock(i)
        \/ LockTimeout(i)
        \/ ValidateRequest(i)
        \/ GetTrackers(i)
        \/ Domain(i)
        \/ UpdateIntent(i)
        \/ UpdateAttempt(i)
        \/ ReleaseLock(i)

Spec == Init /\ [][Next]_vars

\* every task that can take a step is eventually scheduled: a started
\* invocation is driven to its end (the acquire call returns the handle or
\* times out, every phase returns, the release is issued)
Progress(i) ==
    \/ AcquireLock(i)
    \/ LockTimeout(i)
    \/ ValidateRequest(i)
    \/ GetTrackers(i)
    \/ Domain(i)
    \/ UpdateIntent(i)
    \/ UpdateAttempt(i)
    \/ ReleaseLock(i)

FairSpec == Init /\ [][Next]_vars /\ \A i \in Invocations : WF_vars(Progress(i))

\* Cancel/Reject invocations on payments that can be rejected, with rows
\* deleted under them by another component
VanishInit ==
    /\ Init
    /\ scenario.stored /\ scenario.attempt
    /\ scenario.status = "RequiresCapture"
    /\ scenario.profile = Some("pro_1")
    /\ scenario.fraud = None

VanishNext ==
    \/ Next
    \/ ConcurrentDeleteIntent
    \/ ConcurrentDeleteAttempt

VanishSpec == VanishInit /\ [][VanishNext]_vars

\* concurrent create_customer calls
CustomerInit == PayQuiet /\ CustInit /\ OpsQuiet /\ VaultQuiet /\ EphQuiet

CustomerNext ==
    \E j \in CustomerCalls :
        \/ CreateStart(j)
        \/ CreateValidate(j)
        \/ CreateInsert(j)
        \/ CreateFetch(j)

CustomerSpec == CustomerInit /\ [][CustomerNext]_vars

\* a customer of merchant m_1 with an address, with or without a mandate and
\* payment methods, not yet stored, stored, or redacted by an earlier delete
CustomerOpsInit ==
    /\ PayQuiet
    /\ VaultQuiet
    /\ EphQuiet
    /\ customers \in
         { {},
           { CustomerNew("m_1",
               [ customer_id |-> "cust_1", merchant_id |-> "m_1",
                 name |-> Some("Zed"), email |-> Some("zed@example.com"),
                 phone |-> None, description |-> Some("stored earlier"),
                 phone_country_code |-> None, metadata |-> Some("vip") ]) },
           { CustomerNew("m_1",
               [ customer_id |-> "cust_1", merchant_id |-> "m_1",
                 name |-> Some(Redacted), email |-> Some(Redacted),
                 phone |-> Some(Redacted), description |-> Some(Redacted),
                 phone_country_code |-> Some(Redacted), metadata |-> Some("vip") ]) } }
    /\ mandates \in
         { {},
           { MandateRow("m_1", "cust_1", "man_1", "Revoked") },
           { MandateRow("m_1", "cust_1", "man_1", "Revoked"),
             MandateRow("m_1", "cust_1", "man_2", "Active") } }
    /\ payment_methods \in
         { {},
           { PaymentMethodRow("m_1", "cust_1", "pm_1", "Card") },
           { PaymentMethodRow("m_1", "cust_1", "pm_1", "Card"),
             PaymentMethodRow("m_1", "cust_1", "pm_2", "Wallet") } }
    /\ locker = { pm.payment_method_id : pm \in
                    {x \in payment_methods : x.payment_method = "Card"} }
    /\ customer_addresses =
         { AddressRow("m_1", "cust_1", "addr_c1", "Berlin"),
           AddressRow("m_2", "cust_1", "addr_c2", "Paris") }
    /\ cpc = [j \in CustomerCalls |-> "idle"]
    /\ creq = [j \in CustomerCalls |-> NoCustomerRequest]
    /\ cinsert = [j \in CustomerCalls |-> "none"]
    /\ cfetch = [j \in CustomerCalls |-> "none"]
    /\ cfetches = [j \in CustomerCalls |-> 0]
    /\ cresult = [j \in CustomerCalls |-> "none"]
    /\ cresponse = [j \in CustomerCalls |-> None]
    /\ dpms = [j \in CustomerCalls |-> <<>>]
    /\ cfail = [j \in CustomerCalls |-> None]
    /\ clog = [j \in CustomerCalls |-> <<>>]

CustomerOpsNext ==
    \E j \in CustomerCalls :
        \/ CreateStart(j)
        \/ CreateValidate(j)
        \/ CreateInsert(j)
        \/ CreateFetch(j)
        \/ DeleteStart(j)
        \/ DeleteFind(j)
        \/ DeleteMandates(j)
        \/ DeletePmList(j)
        \/ DeleteCard(j)
        \/ DeletePmRow(j)
        \/ DeleteAddress(j)
        \/ DeleteCustomerRow(j)

\* concurrent create_customer and delete_customer calls
CustomerOpsSpec == CustomerOpsInit /\ [][CustomerOpsNext]_vars

EphemeralInit ==
    /\ Init
    /\ scenario.stored /\ scenario.attempt
    /\ scenario.status = "RequiresCapture"
    /\ scenario.profile = Some("pro_1")
    /\ scenario.fraud = None

EphemeralNext ==
    \/ Next
    \/ \E r \in EphemeralRoutes :
          \/ EphCall(r)
          \/ EphLock(r)
          \/ EphBody(r)
          \/ EphRelease(r)

\* the ephemeral-key routes called while Cancel/Reject invocations run
EphemeralSpec == EphemeralInit /\ [][EphemeralNext]_vars

\* a customer of merchant m_1 with an address and a card, without mandates,
\* not yet stored, stored, or redacted by an earlier delete
CustomerLifeInit ==
    /\ CustomerOpsInit
    /\ mandates = {}
    /\ payment_methods = { PaymentMethodRow("m_1", "cust_1", "pm_1", "Card") }

CustomerLifeNext ==
    \/ CustomerOpsNext
    \/ \E j \in CustomerCalls :
          \/ RetrieveStart(j)
          \/ RetrieveCustomer(j)
          \/ UpdateStart(j)
          \/ UpdateCustomer(j)

\* create, retrieve, update and delete calls on the customer table, one
\* after another and concurrently
CustomerLifeSpec == CustomerLifeInit /\ [][CustomerLifeNext]_vars

RaceNext ==
    \E i \in Invocations :
        \/ Start(i)
        \/ AcquireLock(i)
        \/ LockTimeout(i)
        \/ ProceedWithoutLock(i)
        \/ ValidateRequest(i)
        \/ GetTrackers(i)
        \/ Domain(i)
        \/ UpdateIntent(i)
        \/ UpdateAttempt(i)
        \/ ReleaseLock(i)

\* Cancel/Reject invocations on payments that can be rejected, each run
\* under the per-payment lock or without a lock
RaceSpec == VanishInit /\ [][RaceNext]_vars

VaultSpecInit == PayQuiet /\ CustQuiet /\ OpsQuiet /\ VaultInit /\ EphQuiet

VaultNext ==
    \E v \in VaultCalls :
        \/ BuilderStart(v)
        \/ BuilderSign(v)
        \/ BuilderEncrypt(v)
        \/ BuilderReturn(v)

GuardOrderInit ==
    PayInitFrom(GuardOrderScenarios) /\ CustQuiet /\ OpsQuiet /\ VaultQuiet
    /\ EphQuiet

\* Cancel/Reject invocations on payments whose rows may be missing
GuardOrderSpec == GuardOrderInit /\ [][Next]_vars

\* calls of the vault request builders
VaultSpec == VaultSpecInit /\ [][VaultNext]_vars


\* ========================================================================
\* Properties
\* ========================================================================
\* the statuses in which the specification forbids Cancel/Reject
ForbiddenForReject == {"Cancelled", "Failed", "Succeeded", "Processing"}

\* number of audit events emitted by invocation i
EventsBy(i) == Cardinality({n \in 1..Len(audit) : audit[n].request = i})

StoredIntent(i) == Unwrap(intents[req[i].payment_id])

StoredActiveAttempt(i) == Unwrap(attempts[StoredIntent(i).active_attempt])

\* C1: when the intent lookup of get_trackers returns an intent whose stored
\* status is Cancelled, Failed, Succeeded or Processing, the invocation fails
\* with InvalidStatusTransition in that very step, the stored intents, the
\* stored attempts and the audit stream are the same after the step as before
\* it, and the invocation issues no update statement and emits no audit event
\* then or later.
C1_ForbiddenStatusRejected ==
    [][\A i \in Invocations :
         /\ ( /\ pc[i] = "get_trackers"
              /\ pc'[i] # "get_trackers"
              /\ IsSome(guarded'[i])
              /\ StoredIntent(i).status \in ForbiddenForReject )
            => /\ result'[i] = "InvalidStatusTransition"
               /\ intents' = intents
               /\ attempts' = attempts
               /\ audit' = audit
         /\ result[i] = "InvalidStatusTransition"
            => /\ writes'[i] = 0
               /\ \A n \in 1..Len(audit') : audit'[n].request # i
      ]_vars

C1_Witness ==
    \E i \in Invocations :
        /\ pc[i] = "done"
        /\ result[i] = "InvalidStatusTransition"
        /\ guarded[i] = Some("Processing")
        /\ writes[i] = 0

\* what C2 says the invocation ends with
RejectedOutcome(i) ==
    /\ result[i] = "Ok"
    /\ StoredIntent(i).status = "Failed"
    /\ StoredIntent(i).merchant_decision = Some("Rejected")
    /\ StoredActiveAttempt(i).status = "Failure"
    /\ EventsBy(i) = 1
    /\ \A n \in 1..Len(audit) :
         audit[n].request = i =>
           /\ audit[n].event_type = "PaymentReject"
           /\ audit[n].error_code = StoredActiveAttempt(i).error_code
           /\ audit[n].error_message = StoredActiveAttempt(i).error_message

\* invocation i has ended, the guard saw a status in which a reject is
\* allowed, no storage call returned a storage error, and every row it had
\* to look up (active attempt, referenced business profile) exists
EndedWithStorageCallsSucceeding(i) ==
    /\ pc[i] = "done"
    /\ IsSome(guarded[i])
    /\ Unwrap(guarded[i]) \notin ForbiddenForReject
    /\ ~faulted[i]
    /\ IsSome(attempts[StoredIntent(i).active_attempt])
    /\ IsSome(StoredIntent(i).profile_id)
         => IsSome(profiles[Unwrap(StoredIntent(i).profile_id)])

\* C2 as claimed: every such invocation ends with the intent Failed and
\* Rejected, the active attempt Failure and exactly one audit event carrying
\* the attempt's error code and message.
C2_AsClaimed ==
    \A i \in Invocations :
        EndedWithStorageCallsSucceeding(i) => RejectedOutcome(i)

\* C2 (amended): every such invocation whose intent carries a profile
\* reference and whose active attempt carries a currency ends with stored
\* intent status Failed and merchant decision Rejected, stored active-attempt
\* status Failure, and exactly one audit event, which carries the error code
\* and message of the attempt as stored.
C2_RejectTransitions ==
    \A i \in Invocations :
        ( /\ EndedWithStorageCallsSucceeding(i)
          /\ IsSome(StoredIntent(i).profile_id)
          /\ IsSome(StoredActiveAttempt(i).currency) )
        => RejectedOutcome(i)

C2_Witness ==
    \E i \in Invocations :
        /\ EndedWithStorageCallsSucceeding(i)
        /\ IsSome(StoredIntent(i).profile_id)
        /\ result[i] = "Ok"
        /\ guarded[i] = Some("RequiresCapture")
        /\ StoredActiveAttempt(i).error_code = Some("manual_review")

\* invocation i is between its lock acquisition and its lock release
InPipeline(i) ==
    pc[i] \in {"validate", "get_trackers", "domain", "update_intent",
               "update_attempt", "release"}

\* the started invocations on payment p
InvocationsOn(p) == {i \in Invocations : pc[i] # "idle" /\ req[i].payment_id = p}

\* a single Cancel/Reject of the owning merchant succeeds on p as stored at
\* the start
InitiallyRejectable(p) ==
    p = "pay_1" =>
        /\ scenario.stored
        /\ scenario.attempt
        /\ scenario.status \notin ForbiddenForReject
        /\ scenario.profile = Some("pro_1")

\* C3: of the concurrent Cancel/Reject invocations of the owning merchant on
\* one payment that can be rejected, none of which meets a storage failure:
\* at any time at most one is between acquire and release and it holds the
\* lock; once all have ended exactly one has completed all four phases, every
\* other one ended with Conflict or with InvalidStatusTransition after seeing
\* the status Failed written by the first, and the stored intent is Failed
\* and Rejected and its active attempt Failure whatever the interleaving.
C3_ConcurrentRejects ==
    \A p \in Payments :
        LET G == InvocationsOn(p)
            Completed == {i \in G : result[i] = "Ok"}
        IN /\ Cardinality({i \in G : InPipeline(i)}) <= 1
           /\ \A i \in G : InPipeline(i) => lock[p] = i
           /\ Cardinality(Completed) <= 1
           /\ ( /\ Cardinality(G) >= 2
                /\ InitiallyRejectable(p)
                /\ \A i \in G : /\ pc[i] = "done"
                                /\ ~faulted[i]
                                /\ req[i].mc.merchant_id = "m_1" )
              => /\ Cardinality(Completed) = 1
                 /\ \A k \in G \ Completed :
                      \/ result[k] = "Conflict"
                      \/ /\ result[k] = "InvalidStatusTransition"
                         /\ guarded[k] = Some("Failed")
                 /\ Unwrap(intents[p]).status = "Failed"
                 /\ Unwrap(intents[p]).merchant_decision = Some("Rejected")
                 /\ Unwrap(attempts[Unwrap(intents[p]).active_attempt]).status
                      = "Failure"

C3_Witness ==
    \E i, k \in Invocations :
        /\ i # k
        /\ pc[i] = "done" /\ pc[k] = "done"
        /\ req[i] = req[k]
        /\ result[i] = "Ok"
        /\ result[k] = "InvalidStatusTransition"
        /\ guarded[k] = Some("Failed")

\* C4: at most one invocation at a time is between acquire and release for a
\* payment identifier and it is the holder of that identifier's lock; and an
\* invocation waiting for a lock that is free can take it whatever the locks
\* of the other payment identifiers are.
C4_MutualExclusionPerPayment ==
    /\ \A p \in Payments :
         Cardinality({i \in Invocations : InPipeline(i) /\ req[i].payment_id = p}) <= 1
    /\ \A i \in Invocations :
         InPipeline(i) => lock[req[i].payment_id] = i
    /\ \A i \in Invocations :
         (pc[i] = "acquire" /\ lock[req[i].payment_id] = NoHolder)
         => ENABLED AcquireLock(i)

C4_Witness ==
    \E i, k \in Invocations :
        /\ req[i].payment_id = "pay_1" /\ req[k].payment_id = "pay_2"
        /\ pc[i] = "update_attempt" /\ pc[k] = "update_attempt"
        /\ lock["pay_1"] = i /\ lock["pay_2"] = k

\* C5: an invocation is in a phase only while it holds the lock of its
\* payment identifier (the lock is taken before ValidateRequest), an ended
\* invocation holds no lock, and whenever an invocation holds a lock that
\* lock is eventually free again, whether the phases succeed or fail.
C5_LockReleasedOnEveryPath ==
    /\ [](\A i \in Invocations :
            /\ pc[i] \in {"validate", "get_trackers", "domain", "update_intent",
                          "update_attempt"}
               => lock[req[i].payment_id] = i /\ acquires[i] = 1
            /\ pc[i] = "done" => \A p \in Payments : lock[p] # i)
    /\ \A p \in Payments : (lock[p] # NoHolder) ~> (lock[p] = NoHolder)

C5_Witness ==
    \E i \in Invocations :
        /\ pc[i] = "done"
        /\ acquires[i] = 1
        /\ result[i] = "ProfileNotFound"
        /\ lock[req[i].payment_id] = NoHolder

\* C6: a lock acquisition call that does not return the lock ends the
\* invocation with Conflict at once; the invocation has then made exactly one
\* acquisition call, has run no phase (no validate result, no storage read,
\* no update statement, no audit event, stored records untouched), and does
\* nothing afterwards.
C6_ConflictWithoutPhases ==
    [][\A i \in Invocations :
         /\ (acquires'[i] # acquires[i] /\ lock'[req[i].payment_id] # i)
            => /\ result'[i] = "Conflict"
               /\ pc'[i] = "done"
               /\ acquires'[i] = 1
               /\ intents' = intents /\ attempts' = attempts /\ audit' = audit
         /\ result[i] = "Conflict"
            => /\ pc'[i] = "done"
               /\ acquires'[i] = 1
               /\ reads'[i] = 0 /\ writes'[i] = 0
               /\ vres'[i] = None /\ ws'[i] = None /\ guarded'[i] = None
               /\ \A n \in 1..Len(audit') : audit'[n].request # i
      ]_vars

C6_Witness ==
    \E i \in Invocations :
        /\ pc[i] = "done"
        /\ result[i] = "Conflict"
        /\ acquires[i] = 1
        /\ reads[i] = 0 /\ writes[i] = 0

\* the rows stored under the natural key of call j: the customer id of the
\* request and the merchant id of the authenticated merchant account
RowsOfCall(j) ==
    {c \in customers : c.customer_id = creq[j].data.customer_id
                       /\ c.merchant_id = creq[j].auth}

\* C7: when the insert of create_customer reports a unique-constraint
\* violation the call goes on to fetch by (customer id, merchant id) without
\* returning an error; a fetch that finds the record returns it as a success;
\* neither step changes the customer table, whatever field values the
\* repeated request carries; and the call never ends with an error while its
\* fetch found the record.
C7_CreateIdempotent ==
    [][\A j \in CustomerCalls :
         /\ (cpc[j] = "insert" /\ cinsert'[j] = "unique_violation")
            => /\ cpc'[j] = "fetch"
               /\ cresult'[j] = "none"
               /\ customers' = customers
         /\ (cpc[j] = "fetch" /\ cpc'[j] = "done")
            => /\ customers' = customers
               /\ cfetches'[j] = 1
               /\ cfetch'[j] = "ok"
                  => /\ cresult'[j] = "Ok"
                     /\ \E c \in RowsOfCall(j) :
                          cresponse'[j] = Some(CustomerResponse(c))
               /\ cresult'[j] \in {"Ok", "InternalServerError"}
               /\ cresult'[j] = "InternalServerError" => cfetch'[j] # "ok"
      ]_vars

C7_Witness ==
    \E j \in CustomerCalls :
        /\ cpc[j] = "done"
        /\ cinsert[j] = "unique_violation"
        /\ cfetch[j] = "ok"
        /\ cresult[j] = "Ok"
        /\ cresponse[j] # Some(CustomerResponse(CustomerNew(creq[j].auth, creq[j].data)))

\* C8: whatever the interleaving of the insert and fetch steps of the
\* create_customer calls, no key (customer id, merchant id) ever has more
\* than one row, a call that returned a success leaves exactly one row under
\* its key, and any two calls on the same key that both returned a success
\* returned the same customer payload, that of the stored row.
C8_ConcurrentCreateOneRow ==
    /\ \A c, d \in customers :
         (c.customer_id = d.customer_id /\ c.merchant_id = d.merchant_id) => c = d
    /\ \A j \in CustomerCalls :
         (cpc[j] = "done" /\ cresult[j] = "Ok")
         => /\ Cardinality(RowsOfCall(j)) = 1
            /\ \A c \in RowsOfCall(j) : cresponse[j] = Some(CustomerResponse(c))
    /\ \A j, k \in CustomerCalls :
         ( /\ cpc[j] = "done" /\ cpc[k] = "done"
           /\ cresult[j] = "Ok" /\ cresult[k] = "Ok"
           /\ creq[j].data.customer_id = creq[k].data.customer_id
           /\ creq[j].auth = creq[k].auth )
         => cresponse[j] = cresponse[k]

C8_Witness ==
    \E j, k \in CustomerCalls :
        /\ j # k
        /\ cpc[j] = "done" /\ cpc[k] = "done"
        /\ creq[j].auth = creq[k].auth
        /\ creq[j].data.customer_id = creq[k].data.customer_id
        /\ creq[j].data # creq[k].data
        /\ cinsert[j] = "ok" /\ cinsert[k] = "unique_violation"
        /\ cresult[j] = "Ok" /\ cresult[k] = "Ok"
        /\ cresponse[j] = cresponse[k]

\* C9: a call whose insert failed with an error that is no unique-constraint
\* violation has ended with InternalServerError and has issued no fetch; a
\* call whose compensating fetch failed has ended with InternalServerError.
C9_OtherErrorsInternal ==
    \A j \in CustomerCalls :
        /\ cinsert[j] = "error"
           => /\ cpc[j] = "done"
              /\ cresult[j] = "InternalServerError"
              /\ cfetches[j] = 0
              /\ cfetch[j] = "none"
        /\ cfetch[j] \in {"error", "not_found"}
           => /\ cpc[j] = "done"
              /\ cresult[j] = "InternalServerError"
              /\ cinsert[j] = "unique_violation"

C9_Witness ==
    \E j, k \in CustomerCalls :
        /\ cinsert[j] = "error" /\ cresult[j] = "InternalServerError"
        /\ cfetch[k] = "error" /\ cresult[k] = "InternalServerError"

\* both update statements of invocation i are in the stored rows
BothPersisted(i) ==
    /\ StoredIntent(i).status = "Failed"
    /\ StoredIntent(i).merchant_decision = Some("Rejected")
    /\ StoredIntent(i).updated_by = req[i].mc.storage_scheme
    /\ StoredActiveAttempt(i).status = "Failure"
    /\ StoredActiveAttempt(i).updated_by = req[i].mc.storage_scheme

\* C10: once update_trackers of an invocation has returned it has returned
\* either Ok or an error, and when it returned Ok it has issued both update
\* statements and both the intent update and the attempt update are stored;
\* an invocation one of whose updates is not stored has reported a failure.
C10_BothPersistedOrFailure ==
    \A i \in Invocations :
        (pc[i] \in {"release", "done"} /\ writes[i] >= 1)
        => /\ result[i] \in {"Ok", "PaymentNotFound", "InternalServerError"}
           /\ result[i] = "Ok" => (writes[i] = 2 /\ BothPersisted(i))
           /\ ~BothPersisted(i) => result[i] # "Ok"

C10_Witness ==
    \E i \in Invocations :
        /\ pc[i] = "done"
        /\ writes[i] = 2
        /\ result[i] = "PaymentNotFound"
        /\ StoredIntent(i).status = "Failed"
        /\ StoredActiveAttempt(i).status = "Authorized"

\* C11: an invocation issues its update statements in the order intent,
\* attempt: the first one it issues is the intent update and it leaves the
\* attempts alone; it issues the attempt update only with the intent stored
\* as Failed and Rejected. While it stands between the two the stored intent
\* is Failed and the stored attempt is still the one GetTracker loaded; when
\* the attempt update fails the stored attempt keeps its status and error
\* fields and the intent stays Failed; and no attempt row ever changes while
\* the intent of its payment is not Failed.
C11_IntentBeforeAttempt ==
    [][\A i \in Invocations :
         /\ writes'[i] # writes[i]
            => \/ /\ pc[i] = "update_intent"
                  /\ writes[i] = 0
                  /\ attempts' = attempts
               \/ /\ pc[i] = "update_attempt"
                  /\ writes[i] = 1
                  /\ StoredIntent(i).status = "Failed"
                  /\ StoredIntent(i).merchant_decision = Some("Rejected")
                  /\ intents' = intents
         /\ pc[i] = "update_attempt"
            => /\ StoredIntent(i).status = "Failed"
               /\ attempts[StoredIntent(i).active_attempt]
                    = Some(Unwrap(ws[i]).payment_attempt)
               /\ StoredActiveAttempt(i).status # "Failure"
         /\ (pc[i] = "update_attempt" /\ pc'[i] = "release" /\ result'[i] # "Ok")
            => /\ attempts' = attempts
               /\ Unwrap(intents'[req[i].payment_id]).status = "Failed"
         /\ \A a \in AttemptIds :
              attempts'[a] # attempts[a]
              => /\ IsSome(attempts[a])
                 /\ IsSome(intents[Unwrap(attempts[a]).payment_id])
                 /\ Unwrap(intents[Unwrap(attempts[a]).payment_id]).status = "Failed"
      ]_vars

C11_Witness ==
    \E i \in Invocations :
        /\ pc[i] = "done"
        /\ writes[i] = 2
        /\ result[i] = "InternalServerError"
        /\ StoredIntent(i).status = "Failed"
        /\ StoredActiveAttempt(i).status = "Authorized"
        /\ StoredActiveAttempt(i).error_code = Some("E_OLD")

\* update_trackers of invocation i has returned
UpdateTrackerReturned(i) == pc[i] \in {"release", "done"} /\ writes[i] >= 1

\* C12 as claimed: every invocation whose UpdateTracker phase has returned
\* has emitted exactly one audit event.
C12_AsClaimed ==
    \A i \in Invocations : UpdateTrackerReturned(i) => EventsBy(i) = 1

\* C12 (amended): the audit stream only grows, by one event at a time, and
\* an event is appended only by the step in which update_trackers returns
\* Ok, so that it is in the stream when the phase has returned; an
\* invocation whose UpdateTracker phase returned Ok has emitted exactly one
\* event, one whose phase returned an error or has not returned has emitted
\* none.
C12_OneEventOnSuccess ==
    [][/\ audit' # audit
          => \E i \in Invocations :
               /\ audit' = Append(audit, audit'[Len(audit')])
               /\ audit'[Len(audit')].request = i
               /\ pc[i] = "update_attempt" /\ pc'[i] = "release"
               /\ result[i] = "none" /\ result'[i] = "Ok"
       /\ \A i \in Invocations :
            /\ (UpdateTrackerReturned(i) /\ result[i] = "Ok") => EventsBy(i) = 1
            /\ (UpdateTrackerReturned(i) /\ result[i] # "Ok") => EventsBy(i) = 0
            /\ ~UpdateTrackerReturned(i) => EventsBy(i) = 0
            /\ (result[i] = "none" /\ result'[i] = "Ok")
               => Len(audit') = Len(audit) + 1
      ]_vars

C12_Witness ==
    \E i, k \in Invocations :
        /\ UpdateTrackerReturned(i) /\ result[i] = "Ok" /\ EventsBy(i) = 1
        /\ UpdateTrackerReturned(k) /\ result[k] = "PaymentNotFound"
        /\ EventsBy(k) = 0
        /\ Len(audit) = 1

\* the stored intent that belongs to the caller's merchant, if any
IntentOfCaller(i) ==
    IF /\ IsSome(intents[req[i].payment_id])
       /\ StoredIntent(i).merchant_id = req[i].mc.merchant_id
    THEN intents[req[i].payment_id] ELSE None

\* the stored active attempt of that intent under the caller's merchant
ActiveAttemptOfCaller(i) ==
    LET a == attempts[Unwrap(IntentOfCaller(i)).active_attempt]
    IN IF /\ IsSome(a)
          /\ Unwrap(a).payment_id = req[i].payment_id
          /\ Unwrap(a).merchant_id = req[i].mc.merchant_id
       THEN a ELSE None

\* C13: a GetTracker run in which no lookup returns a storage error ends
\* with PaymentNotFound, after the intent lookup alone and with no Working
\* Set, when no intent is stored under the payment id or the stored intent
\* belongs to another merchant than the caller; and it ends with
\* PaymentNotFound when the intent is found, the guard lets it pass and its
\* active attempt has no row for that payment and merchant.
C13_NotFound ==
    [][\A i \in Invocations :
         (pc[i] = "get_trackers" /\ pc'[i] # "get_trackers" /\ ~faulted'[i])
         => /\ ~IsSome(IntentOfCaller(i))
               => /\ result'[i] = "PaymentNotFound"
                  /\ pc'[i] = "release"
                  /\ reads'[i] = 1
                  /\ guarded'[i] = None
                  /\ ws'[i] = None
            /\ ( /\ IsSome(IntentOfCaller(i))
                 /\ StoredIntent(i).status \notin ForbiddenForReject
                 /\ ~IsSome(ActiveAttemptOfCaller(i)) )
               => /\ result'[i] = "PaymentNotFound"
                  /\ pc'[i] = "release"
                  /\ reads'[i] = 2
                  /\ ws'[i] = None
      ]_vars

C13_Witness ==
    \E i, k \in Invocations :
        /\ pc[i] = "done" /\ pc[k] = "done"
        /\ req[i].payment_id = "pay_1" /\ req[k].payment_id = "pay_1"
        /\ req[i].mc.merchant_id = "m_2"
        /\ IsSome(intents["pay_1"])
        /\ result[i] = "PaymentNotFound" /\ reads[i] = 1
        /\ req[k].mc.merchant_id = "m_1"
        /\ ~IsSome(attempts[StoredIntent(k).active_attempt])
        /\ result[k] = "PaymentNotFound" /\ reads[k] = 2
        /\ ~faulted[i] /\ ~faulted[k]

\* the GetTracker run of invocation i found the intent and the active
\* attempt, passed the guard and met no storage error, and has ended
ReachedProfileStep(i) ==
    /\ pc[i] \in {"release", "done"}
    /\ writes[i] = 0
    /\ ~faulted[i]
    /\ IsSome(guarded[i])
    /\ Unwrap(guarded[i]) \notin ForbiddenForReject
    /\ IsSome(IntentOfCaller(i))
    /\ IsSome(ActiveAttemptOfCaller(i))
    /\ IsSome(Unwrap(ActiveAttemptOfCaller(i)).currency)

\* C14 as claimed: such a run fails with ProfileNotFound when the intent has
\* no profile reference and when the referenced profile has no row.
C14_AsClaimed ==
    \A i \in Invocations :
        ( /\ ReachedProfileStep(i)
          /\ \/ ~IsSome(StoredIntent(i).profile_id)
             \/ ~IsSome(profiles[Unwrap(StoredIntent(i).profile_id)]) )
        => result[i] = "ProfileNotFound"

\* C14 (amended): such a run fails with ProfileNotFound when the profile the
\* intent refers to has no row, and with InternalServerError, without
\* having looked a profile up, when the intent has no profile reference.
C14_ProfileErrors ==
    \A i \in Invocations :
        ReachedProfileStep(i)
        => /\ ~IsSome(StoredIntent(i).profile_id)
              => /\ result[i] = "InternalServerError"
                 /\ reads[i] = 3 + AddressReads(StoredIntent(i), StoredActiveAttempt(i))
           /\ ( /\ IsSome(StoredIntent(i).profile_id)
                /\ ~IsSome(profiles[Unwrap(StoredIntent(i).profile_id)]) )
              => /\ result[i] = "ProfileNotFound"
                 /\ reads[i] = 4 + AddressReads(StoredIntent(i), StoredActiveAttempt(i))

C14_Witness ==
    \E i \in Invocations :
        /\ ReachedProfileStep(i)
        /\ pc[i] = "done"
        /\ StoredIntent(i).profile_id = Some("pro_x")
        /\ result[i] = "ProfileNotFound"
        /\ IsSome(frauds[req[i].payment_id])

\* C15: the step in which get_trackers of an invocation runs, whether it
\* builds the Working Set or fails, leaves the stored intents, attempts,
\* addresses, fraud checks, business profiles and customers and the audit
\* stream as they were and issues no update statement; it only issues reads.
C15_GetTrackerReadOnly ==
    [][\A i \in Invocations :
         (pc[i] = "get_trackers" /\ pc'[i] # "get_trackers")
         => /\ intents' = intents
            /\ attempts' = attempts
            /\ addresses' = addresses
            /\ frauds' = frauds
            /\ profiles' = profiles
            /\ customers' = customers
            /\ audit' = audit
            /\ writes' = writes
            /\ reads'[i] >= reads[i]
            /\ pc'[i] \in {"domain", "release"}
      ]_vars

C15_Witness ==
    \E i, k \in Invocations :
        /\ pc[i] = "domain" /\ IsSome(ws[i]) /\ reads[i] = 5
        /\ Unwrap(ws[i]).payment_intent = StoredIntent(i)
        /\ pc[k] = "release" /\ result[k] = "ProfileNotFound"
        /\ writes[i] = 0 /\ writes[k] = 0
        /\ audit = <<>>

\* C16: the step in which validate_request of an invocation runs always
\* succeeds; its result carries the payment id of the request (as a
\* PaymentIntentId), the merchant id and the storage scheme of the merchant
\* context and requeue = false; and the step issues no storage read and no
\* update statement and leaves every stored record and the audit stream as
\* they were. The same holds of validate_request on every pair of a request
\* and a merchant context.
C16_ValidateRequestPure ==
    [][/\ \A i \in Invocations :
            (pc[i] = "validate" /\ pc'[i] # "validate")
            => /\ pc'[i] = "get_trackers"
               /\ result'[i] = "none"
               /\ IsSome(vres'[i])
               /\ get_payment_intent_id(Unwrap(vres'[i]).payment_id)
                    = Some(req[i].payment_id)
               /\ Unwrap(vres'[i]).merchant_id = req[i].mc.merchant_id
               /\ Unwrap(vres'[i]).storage_scheme = req[i].mc.storage_scheme
               /\ Unwrap(vres'[i]).requeue = FALSE
               /\ reads' = reads /\ writes' = writes
               /\ intents' = intents /\ attempts' = attempts
               /\ addresses' = addresses /\ frauds' = frauds
               /\ profiles' = profiles /\ customers' = customers
               /\ audit' = audit
       /\ \A r \in Requests, mc \in MerchantContexts :
            /\ validate_request(r, mc).payment_id = PaymentIntentId(r.payment_id)
            /\ validate_request(r, mc).merchant_id = mc.merchant_id
            /\ validate_request(r, mc).storage_scheme = mc.storage_scheme
            /\ validate_request(r, mc).requeue = FALSE
      ]_vars

C16_Witness ==
    \E i, k \in Invocations :
        /\ pc[i] = "get_trackers" /\ pc[k] = "get_trackers"
        /\ req[i].mc.merchant_id = "m_2"
        /\ Unwrap(vres[i]).merchant_id = "m_2"
        /\ Unwrap(vres[i]).storage_scheme = "redis_kv"
        /\ Unwrap(vres[i]).payment_id.id = "pay_1"
        /\ Unwrap(vres[k]).merchant_id = "m_1"
        /\ Unwrap(vres[k]).payment_id.id = "pay_2"
        /\ reads[i] = 0 /\ reads[k] = 0

\* C17: when the intent row is gone at the time update_trackers issues the
\* intent update, or the attempt row at the time it issues the attempt
\* update, and storage reports nothing but the missing row, the invocation
\* ends its UpdateTracker phase with PaymentNotFound in that step, writing
\* nothing and emitting nothing; after that it issues no further update
\* statement (the failed one was issued once) and no audit event of it ever
\* appears.
C17_RowVanished ==
    [][\A i \in Invocations :
         /\ ( /\ pc[i] = "update_intent" /\ pc'[i] # "update_intent"
              /\ ~IsSome(intents[req[i].payment_id])
              /\ ~faulted'[i] )
            => /\ result'[i] = "PaymentNotFound"
               /\ pc'[i] = "release"
               /\ writes[i] = 0 /\ writes'[i] = 1
               /\ intents' = intents /\ attempts' = attempts /\ audit' = audit
         /\ ( /\ pc[i] = "update_attempt" /\ pc'[i] # "update_attempt"
              /\ ~IsSome(attempts[Unwrap(ws[i]).payment_attempt.attempt_id])
              /\ ~faulted'[i] )
            => /\ result'[i] = "PaymentNotFound"
               /\ pc'[i] = "release"
               /\ writes[i] = 1 /\ writes'[i] = 2
               /\ intents' = intents /\ attempts' = attempts /\ audit' = audit
         /\ result[i] = "PaymentNotFound"
            => /\ writes'[i] = writes[i]
               /\ result'[i] = "PaymentNotFound"
               /\ \A n \in 1..Len(audit') : audit'[n].request # i
      ]_vars

C17_Witness ==
    \E i, k \in Invocations :
        /\ pc[i] = "done" /\ pc[k] = "done"
        /\ ~faulted[i] /\ ~faulted[k]
        /\ result[i] = "PaymentNotFound" /\ result[k] = "PaymentNotFound"
        /\ writes[i] = 1 /\ intents[req[i].payment_id] = None
        /\ writes[k] = 2 /\ intents[req[k].payment_id] # None
        /\ Unwrap(intents[req[k].payment_id]).status = "Failed"
        /\ attempts[Unwrap(intents[req[k].payment_id]).active_attempt] = None
        /\ audit = <<>>

\* update_trackers of invocation i has returned Ok and its Working Set is
\* still at hand
ReturnedWorkingSet(i) == pc[i] = "release" /\ result[i] = "Ok"

\* C18 as claimed: running get_trackers again on the payment of such an
\* invocation yields a Working Set whose intent status, attempt status and
\* error code and message are those update_trackers persisted.
C18_AsClaimed ==
    \A i \in Invocations :
        ReturnedWorkingSet(i)
        => LET r == get_trackers(PaymentIntentId(req[i].payment_id), req[i].mc, "none")
               persisted == Unwrap(ws[i])
           IN /\ r.err = ""
              /\ Unwrap(r.data).payment_intent.status = persisted.payment_intent.status
              /\ Unwrap(r.data).payment_attempt.status = persisted.payment_attempt.status
              /\ Unwrap(r.data).payment_attempt.error_code
                   = persisted.payment_attempt.error_code
              /\ Unwrap(r.data).payment_attempt.error_message
                   = persisted.payment_attempt.error_message

\* C18 (amended): after update_trackers has returned Ok, the two lookups
\* get_trackers starts with return an intent and its active attempt whose
\* intent status, attempt status and error code and message are those of
\* the update statements (a column the statement leaves alone keeps its
\* value) and of the Working Set update_trackers returned; get_trackers of
\* Cancel/Reject itself run on that payment builds no Working Set: it fails
\* with InvalidStatusTransition on the persisted status Failed.
C18_RoundTrip ==
    \A i \in Invocations :
        ReturnedWorkingSet(i)
        => LET persisted == Unwrap(ws[i])
               scheme == Unwrap(vres[i]).storage_scheme
               iu == IntentRejectUpdate(scheme)
               au == AttemptRejectUpdate(persisted.frm_message, scheme)
               pi == find_payment_intent_by_payment_id_merchant_id(
                         req[i].payment_id, req[i].mc.merchant_id)
               pa == find_payment_attempt_by_payment_id_merchant_id_attempt_id(
                         req[i].payment_id, req[i].mc.merchant_id,
                         Unwrap(pi).active_attempt)
               r == get_trackers(PaymentIntentId(req[i].payment_id), req[i].mc, "none")
           IN /\ IsSome(pi) /\ IsSome(pa)
              /\ Unwrap(pi).status = iu.status
              /\ Unwrap(pi).status = persisted.payment_intent.status
              /\ Unwrap(pa).status = au.status
              /\ Unwrap(pa).status = persisted.payment_attempt.status
              /\ IsSome(au.error_code) => Unwrap(pa).error_code = Unwrap(au.error_code)
              /\ IsSome(au.error_message)
                 => Unwrap(pa).error_message = Unwrap(au.error_message)
              /\ Unwrap(pa).error_code = persisted.payment_attempt.error_code
              /\ Unwrap(pa).error_message = persisted.payment_attempt.error_message
              /\ r.err = "InvalidStatusTransition"
              /\ r.guarded = Some("Failed")
              /\ r.data = None

C18_Witness ==
    \E i \in Invocations :
        /\ ReturnedWorkingSet(i)
        /\ Unwrap(ws[i]).payment_attempt.error_code = Some("manual_review")
        /\ Unwrap(ws[i]).payment_attempt.error_message = Some("\"suspicious\"")
        /\ StoredActiveAttempt(i).error_code = Some("manual_review")
        /\ StoredIntent(i).status = "Failed"

\* C19: in every step of every interleaving of locked invocations no intent
\* row disappears; an intent row changes only in the intent-update step of
\* the invocation that holds the payment's lock and whose guard has passed
\* the status the row has at that moment; an invocation issues its intent
\* update only on an intent whose stored status is none of Succeeded,
\* Cancelled, Failed and Processing; and the only status ever written is
\* Failed.
C19_StatusOnlyThroughGuard ==
    [][/\ \A p \in Payments :
            /\ IsSome(intents[p]) => IsSome(intents'[p])
            /\ ~IsSome(intents[p]) => ~IsSome(intents'[p])
            /\ intents'[p] # intents[p]
               => /\ Unwrap(intents[p]).status \notin ForbiddenForReject
                  /\ Unwrap(intents'[p]).status = "Failed"
                  /\ \E i \in Invocations :
                       /\ lock[p] = i
                       /\ req[i].payment_id = p
                       /\ pc[i] = "update_intent" /\ pc'[i] = "update_attempt"
                       /\ guarded[i] = Some(Unwrap(intents[p]).status)
       /\ \A i \in Invocations :
            (pc[i] = "update_intent" /\ writes'[i] # writes[i])
            => /\ StoredIntent(i).status \notin ForbiddenForReject
               /\ guarded[i] = Some(StoredIntent(i).status)
      ]_vars

C19_Witness ==
    \E i, k \in Invocations :
        /\ pc[i] = "done" /\ result[i] = "Ok"
        /\ guarded[i] = Some("RequiresMerchantAction")
        /\ StoredIntent(i).status = "Failed"
        /\ req[k] = req[i]
        /\ pc[k] = "release" /\ writes[k] = 0
        /\ guarded[k] = Some("Failed")

\* the columns the reject statements may set
IntentRejectColumns == {"status", "merchant_decision", "updated_by"}

AttemptRejectColumns == {"status", "error_code", "error_message", "updated_by"}

\* row `new` is row `old` in every column outside `columns`
SameOutside(old, new, columns) ==
    /\ DOMAIN new = DOMAIN old
    /\ \A f \in DOMAIN old \ columns : new[f] = old[f]

\* C20: the intent statement an invocation issues names only status,
\* merchant decision and updated-by, the attempt statement only status,
\* error code, error message and updated-by; and in every step every stored
\* intent and attempt keeps all its other columns, among them the intent's
\* payment id, merchant id and active-attempt reference and the attempt's
\* attempt id, payment id and merchant id, and stays stored under its key.
C20_IdentityFieldsKept ==
    [][/\ \A i \in Invocations :
            /\ (pc[i] = "update_intent" /\ writes'[i] # writes[i])
               => DOMAIN IntentRejectUpdate(Unwrap(vres[i]).storage_scheme)
                    = IntentRejectColumns
            /\ (pc[i] = "update_attempt" /\ writes'[i] # writes[i])
               => DOMAIN AttemptRejectUpdate(Unwrap(ws[i]).frm_message,
                                             Unwrap(vres[i]).storage_scheme)
                    = AttemptRejectColumns
       /\ \A p \in Payments :
            IsSome(intents[p])
            => /\ IsSome(intents'[p])
               /\ SameOutside(Unwrap(intents[p]), Unwrap(intents'[p]),
                              IntentRejectColumns)
               /\ Unwrap(intents'[p]).payment_id = p
               /\ Unwrap(intents'[p]).merchant_id = Unwrap(intents[p]).merchant_id
               /\ Unwrap(intents'[p]).active_attempt = Unwrap(intents[p]).active_attempt
       /\ \A a \in AttemptIds :
            IsSome(attempts[a])
            => /\ IsSome(attempts'[a])
               /\ SameOutside(Unwrap(attempts[a]), Unwrap(attempts'[a]),
                              AttemptRejectColumns)
               /\ Unwrap(attempts'[a]).attempt_id = a
               /\ Unwrap(attempts'[a]).payment_id = Unwrap(attempts[a]).payment_id
      ]_vars

C20_Witness ==
    \E i \in Invocations :
        /\ pc[i] = "done" /\ result[i] = "Ok"
        /\ req[i].payment_id = "pay_1"
        /\ StoredIntent(i).merchant_decision = Some("Rejected")
        /\ StoredIntent(i).payment_id = "pay_1"
        /\ StoredIntent(i).merchant_id = "m_1"
        /\ StoredIntent(i).active_attempt = "att_1b"
        /\ StoredActiveAttempt(i).attempt_id = "att_1b"
        /\ StoredActiveAttempt(i).payment_id = "pay_1"
        /\ StoredActiveAttempt(i).status = "Failure"
        /\ StoredActiveAttempt(i).error_code = Some("fraud")

\* C21 as claimed: a call one of whose storage calls failed with an error
\* that is neither a not-found nor a unique-constraint violation has
\* returned InternalServerError, the address redaction and the customer
\* redaction of delete_customer included.
C21_AsClaimed ==
    \A j \in CustomerCalls :
        ( /\ IsSome(cfail[j])
          /\ Unwrap(cfail[j])[1] # "delete_card"
          /\ Unwrap(cfail[j])[2] = "error" )
        => cresult[j] = "InternalServerError"

\* the steps one invocation can take from one phase to the next: the lock
\* acquisition, ValidateRequest, GetTracker, Domain, UpdateTracker (its
\* intent statement, then its attempt statement), the release
PhaseSteps ==
    { <<"idle", "acquire">>,
      <<"acquire", "validate">>, <<"acquire", "done">>,
      <<"validate", "get_trackers">>,
      <<"get_trackers", "domain">>, <<"get_trackers", "release">>,
      <<"domain", "update_intent">>,
      <<"update_intent", "update_attempt">>, <<"update_intent", "release">>,
      <<"update_attempt", "release">>,
      <<"release", "done">> }

\* C22: within one invocation the phases come in the order lock acquire,
\* ValidateRequest, GetTracker, Domain, UpdateTracker, lock release. A phase
\* starts only after the previous one has succeeded: ValidateRequest starts
\* with the lock taken, GetTracker with a validate result, Domain with the
\* Working Set get_trackers returned; a failed GetTracker leads straight to
\* the release. A storage write or an audit event of an invocation happens
\* only in its UpdateTracker phase, hence never in an invocation whose
\* ValidateRequest or GetTracker failed.
C22_PhaseOrder ==
    [][\A i \in Invocations :
         /\ pc'[i] # pc[i] => <<pc[i], pc'[i]>> \in PhaseSteps
         /\ (pc[i] = "acquire" /\ pc'[i] = "validate")
            => lock'[req[i].payment_id] = i
         /\ (pc[i] = "acquire" /\ pc'[i] = "done") => result'[i] = "Conflict"
         /\ pc'[i] = "get_trackers" => IsSome(vres'[i])
         /\ (pc[i] = "get_trackers" /\ pc'[i] = "domain")
            => IsSome(ws'[i]) /\ result'[i] = "none"
         /\ (pc[i] = "get_trackers" /\ pc'[i] = "release")
            => /\ result'[i] \notin {"none", "Ok"}
               /\ ws'[i] = None
               /\ writes'[i] = 0 /\ EventsBy(i)' = 0
         /\ pc[i] \in {"domain", "update_intent", "update_attempt"}
            => IsSome(ws[i]) /\ IsSome(vres[i]) /\ result[i] = "none"
         /\ (writes'[i] # writes[i] \/ EventsBy(i)' # EventsBy(i))
            => pc[i] \in {"update_intent", "update_attempt"}
         /\ (pc[i] \in {"release", "done"} /\ result[i] # "Ok")
            => (writes[i] = 0 \/ faulted[i] \/ result[i] = "PaymentNotFound")
               /\ EventsBy(i) = 0
      ]_vars

\* one invocation went through every phase and rejected its payment, the
\* other ended at a failed GetTracker without a write or an event
C22_Witness ==
    \E i, k \in Invocations :
        /\ pc[i] = "done" /\ result[i] = "Ok"
        /\ writes[i] = 2 /\ EventsBy(i) = 1
        /\ pc[k] = "done"
        /\ result[k] \in {"InvalidStatusTransition", "PaymentNotFound",
                          "ProfileNotFound", "InternalServerError"}
        /\ reads[k] > 0 /\ writes[k] = 0 /\ EventsBy(k) = 0

\* the holder of the lock invocation i asks for (no holder before i has a
\* request)
HolderFor(i) ==
    IF req[i] = NoRequest THEN NoHolder ELSE lock[req[i].payment_id]

\* C23: no invocation blocks forever on the lock. Under fair scheduling an
\* invocation that stands at the acquisition while the lock of its payment
\* is held by another one eventually has left the acquisition, either
\* holding the lock or ended with Conflict.
C23_NoUnboundedBlocking ==
    \A i \in Invocations :
        (pc[i] = "acquire" /\ HolderFor(i) \notin {NoHolder, i})
        ~> ( /\ pc[i] # "acquire"
             /\ \/ HolderFor(i) = i
                \/ pc[i] = "done" /\ result[i] = "Conflict" )

\* an invocation ended with Conflict while the other one still holds the
\* lock of the same payment
C23_Witness ==
    \E i, k \in Invocations :
        /\ i # k
        /\ pc[i] = "done" /\ result[i] = "Conflict"
        /\ req[k].payment_id = req[i].payment_id
        /\ lock[req[i].payment_id] = k
        /\ pc[k] \notin {"idle", "acquire", "done"}

\* C24: when update_trackers persists the attempt update and returns Ok, the
\* stored attempt's error code and message come from the fraud-check result
\* of the Working Set when there is one (code: the fraud status as text,
\* message: the fraud reason as text, no message when the result has no
\* reason) and are the ones stored before when there is none; the fraud
\* result of the Working Set is the stored one or none; and the audit event
\* emitted in that step carries the code and message of the stored attempt.
C24_ErrorFieldsFromFraudResult ==
    [][\A i \in Invocations :
         (pc[i] = "update_attempt" /\ pc'[i] = "release" /\ result'[i] = "Ok")
         => LET data == Unwrap(ws[i])
                aid == data.payment_attempt.attempt_id
                frm == data.frm_message
                old == Unwrap(attempts[aid])
                new == Unwrap(attempts'[aid])
                event == audit'[Len(audit')]
            IN /\ IsSome(attempts[aid]) /\ IsSome(attempts'[aid])
               /\ frm \in {None, frauds[req[i].payment_id]}
               /\ IsSome(frm)
                  => /\ new.error_code
                          = Some(FrmStatusToString(Unwrap(frm).frm_status))
                     /\ IsSome(Unwrap(frm).frm_reason)
                        => new.error_message
                             = Some(ReasonToString(Unwrap(Unwrap(frm).frm_reason)))
                     /\ ~IsSome(Unwrap(frm).frm_reason)
                        => new.error_message = None
               /\ ~IsSome(frm)
                  => /\ new.error_code = old.error_code
                     /\ new.error_message = old.error_message
               /\ Len(audit') = Len(audit) + 1
               /\ event.request = i
               /\ event.error_code = new.error_code
               /\ event.error_message = new.error_message
      ]_vars

\* a payment whose fraud result has status Fraud and no reason was rejected:
\* the attempt's old message is gone, its code is the fraud status, and the
\* event says the same
C24_Witness ==
    \E i \in Invocations :
        /\ pc[i] = "done" /\ result[i] = "Ok"
        /\ IsSome(frauds[req[i].payment_id])
        /\ Unwrap(frauds[req[i].payment_id]).frm_reason = None
        /\ StoredActiveAttempt(i).error_code = Some("fraud")
        /\ StoredActiveAttempt(i).error_message = None
        /\ \E n \in 1..Len(audit) :
              /\ audit[n].request = i
              /\ audit[n].error_code = Some("fraud")
              /\ audit[n].error_message = None

C27_CheckOrder ==
    [][\A i \in Invocations :
         (pc[i] = "get_trackers" /\ pc'[i] # "get_trackers" /\ ~faulted'[i])
         => LET pi == find_payment_intent_by_payment_id_merchant_id(
                          req[i].payment_id, req[i].mc.merchant_id)
                intent == Unwrap(pi)
                pa == attempts[intent.active_attempt]
                lookups == reads'[i] - reads[i]
            IN /\ ~IsSome(pi)
                  => /\ result'[i] = "PaymentNotFound"
                     /\ lookups = 1 /\ guarded'[i] = None
               /\ (IsSome(pi) /\ intent.status \in ForbiddenForReject)
                  => /\ result'[i] = "InvalidStatusTransition"
                     /\ lookups = 1 /\ guarded'[i] = Some(intent.status)
               /\ (IsSome(pi) /\ intent.status \notin ForbiddenForReject)
                  => /\ guarded'[i] = Some(intent.status)
                     /\ ~IsSome(pa)
                        => result'[i] = "PaymentNotFound" /\ lookups = 2
                     /\ IsSome(pa)
                        => LET after_fraud ==
                                   2 + AddressReads(intent, Unwrap(pa)) + 1
                           IN /\ ~IsSome(intent.profile_id)
                                 => /\ result'[i] = "InternalServerError"
                                    /\ lookups = after_fraud
                              /\ ( /\ IsSome(intent.profile_id)
                                   /\ ~IsSome(profiles[Unwrap(intent.profile_id)]) )
                                 => /\ result'[i] = "ProfileNotFound"
                                    /\ lookups = after_fraud + 1
                              /\ ( /\ IsSome(intent.profile_id)
                                   /\ IsSome(profiles[Unwrap(intent.profile_id)]) )
                                 => /\ result'[i] = "none" /\ IsSome(ws'[i])
                                    /\ lookups = after_fraud + 1
      ]_vars

\* an invocation ended with InvalidStatusTransition after one lookup on an
\* intent in a forbidden status whose attempt row, address row and profile
\* are all missing
C27_Witness ==
    \E i \in Invocations :
        /\ pc[i] = "done" /\ result[i] = "InvalidStatusTransition"
        /\ reads[i] = 1
        /\ StoredIntent(i).status \in ForbiddenForReject
        /\ ~IsSome(attempts[StoredIntent(i).active_attempt])
        /\ ~IsSome(addresses[Unwrap(StoredIntent(i).shipping_address_id)])
        /\ IsSome(StoredIntent(i).profile_id)
        /\ ~IsSome(profiles[Unwrap(StoredIntent(i).profile_id)])

\* C28: a failing fraud-check lookup never fails GetTracker. Whenever a
\* GetTracker phase runs, get_trackers with the fraud lookup failing returns
\* what it returns with the lookup answering, the fraud result aside: the
\* same error if any, no storage failure propagated, and else the same
\* Working Set with no fraud result. A Working Set built without the stored
\* fraud result takes the invocation on to the Domain phase, and its
\* UpdateTracker, when both updates are stored, rejects the payment: intent
\* Failed, attempt Failure.
C28_FraudLookupOptional ==
    [][\A i \in Invocations :
         /\ (pc[i] = "get_trackers" /\ pc'[i] # "get_trackers")
            => LET answered == get_trackers(Unwrap(vres[i]).payment_id, req[i].mc, "none")
                   failing == get_trackers(Unwrap(vres[i]).payment_id, req[i].mc, "frm")
               IN /\ failing.err = answered.err
                  /\ ~failing.faulted
                  /\ answered.err = ""
                     => /\ failing.data =
                             Some([Unwrap(answered.data) EXCEPT !.frm_message = None])
                        /\ IsSome(frauds[req[i].payment_id])
                           => Unwrap(answered.data).frm_message
                                = frauds[req[i].payment_id]
                  /\ (IsSome(ws'[i]) /\ Unwrap(ws'[i]).frm_message = None)
                     => pc'[i] = "domain" /\ result'[i] = "none"
         /\ ( /\ pc[i] = "update_attempt" /\ pc'[i] = "release"
              /\ result'[i] = "Ok"
              /\ Unwrap(ws[i]).frm_message = None )
            => /\ Unwrap(intents'[req[i].payment_id]).status = "Failed"
               /\ Unwrap(attempts'[Unwrap(ws[i]).payment_attempt.attempt_id]).status
                    = "Failure"
      ]_vars

\* a payment with a stored fraud result was rejected by an invocation whose
\* fraud lookup failed: the attempt is Failure and keeps its old error code
C28_Witness ==
    \E i \in Invocations :
        /\ pc[i] = "done" /\ result[i] = "Ok"
        /\ IsSome(frauds[req[i].payment_id])
        /\ StoredIntent(i).status = "Failed"
        /\ StoredActiveAttempt(i).status = "Failure"
        /\ StoredActiveAttempt(i).error_code = Some("E_OLD")
        /\ EventsBy(i) = 1

\* C29: Cancel/Reject loads and updates only the active attempt. The attempt
\* of a Working Set get_trackers returns is the stored row under the
\* active-attempt reference of its intent; an attempt row changes only in
\* the attempt-update step of an invocation, and only the row under the
\* active-attempt reference of that invocation's intent; every other
\* attempt, the other attempts of the same intent among them, is the same
\* row after every step.
C29_OnlyActiveAttempt ==
    [][/\ \A i \in Invocations :
            (pc[i] = "get_trackers" /\ IsSome(ws'[i]))
            => LET data == Unwrap(ws'[i])
               IN /\ data.payment_intent = Unwrap(intents[req[i].payment_id])
                  /\ data.payment_attempt
                       = Unwrap(attempts[data.payment_intent.active_attempt])
       /\ \A a \in AttemptIds :
            attempts'[a] # attempts[a]
            => \E i \in Invocations :
                 /\ pc[i] = "update_attempt" /\ pc'[i] = "release"
                 /\ IsSome(intents[req[i].payment_id])
                 /\ a = Unwrap(intents[req[i].payment_id]).active_attempt
                 /\ a = Unwrap(ws[i]).payment_attempt.attempt_id
                 /\ \A b \in AttemptIds \ {a} : attempts'[b] = attempts[b]
      ]_vars

\* pay_1 was rejected: its active attempt att_1b is Failure with the fraud
\* status as code, its earlier attempt att_1a is the row it was
C29_Witness ==
    \E i \in Invocations :
        /\ pc[i] = "done" /\ result[i] = "Ok"
        /\ req[i].payment_id = "pay_1"
        /\ StoredIntent(i).active_attempt = "att_1b"
        /\ Unwrap(attempts["att_1b"]).status = "Failure"
        /\ Unwrap(attempts["att_1b"]).error_code = Some("manual_review")
        /\ Unwrap(attempts["att_1a"]).payment_id = "pay_1"
        /\ Unwrap(attempts["att_1a"]).error_code = Some("E_DECLINED")
        /\ Unwrap(attempts["att_1a"]).error_message = Some("declined")
        /\ Unwrap(attempts["att_1a"]).updated_by = "postgres_only"

\* C30: the Domain phase of Cancel/Reject is a no-op. The step that takes an
\* invocation from the end of GetTracker to the start of UpdateTracker
\* changes no stored row, emits no event, issues no storage read or write
\* and leaves the Working Set as get_trackers built it; and the rows the
\* two update statements store carry the statuses Failed and Failure and
\* are the rows of the Working Set's intent and attempt with the statement
\* built from the Working Set applied.
C30_DomainNoOp ==
    [][\A i \in Invocations :
         /\ (pc[i] = "domain" /\ pc'[i] # "domain")
            => /\ pc'[i] = "update_intent"
               /\ intents' = intents /\ attempts' = attempts
               /\ addresses' = addresses /\ frauds' = frauds
               /\ profiles' = profiles /\ audit' = audit /\ lock' = lock
               /\ ws' = ws /\ vres' = vres /\ result' = result
               /\ reads' = reads /\ writes' = writes
         /\ (pc[i] = "update_intent" /\ pc'[i] = "update_attempt")
            => LET data == Unwrap(ws[i])
                   scheme == Unwrap(vres[i]).storage_scheme
               IN /\ intents'[req[i].payment_id]
                       = update_payment_intent(data.payment_intent,
                                               IntentRejectUpdate(scheme))
                  /\ Unwrap(intents'[req[i].payment_id]).status = "Failed"
         /\ (pc[i] = "update_attempt" /\ pc'[i] = "release" /\ result'[i] = "Ok")
            => LET data == Unwrap(ws[i])
                   scheme == Unwrap(vres[i]).storage_scheme
                   aid == data.payment_attempt.attempt_id
               IN /\ attempts'[aid]
                       = update_payment_attempt_with_attempt_id(
                             data.payment_attempt,
                             AttemptRejectUpdate(data.frm_message, scheme))
                  /\ Unwrap(attempts'[aid]).status = "Failure"
                  /\ SameOutside(data.payment_attempt, Unwrap(attempts'[aid]),
                                 AttemptRejectColumns)
      ]_vars

\* an invocation stands at the start of UpdateTracker: the Domain phase is
\* behind it, nothing was written, and the stored rows are those of its
\* Working Set
C30_Witness ==
    \E i \in Invocations :
        /\ pc[i] = "update_intent"
        /\ IsSome(ws[i])
        /\ reads[i] > 0 /\ writes[i] = 0
        /\ audit = <<>>
        /\ intents[req[i].payment_id] = Some(Unwrap(ws[i]).payment_intent)
        /\ Unwrap(ws[i]).payment_intent.status = "RequiresCapture"
        /\ attempts[Unwrap(ws[i]).payment_attempt.attempt_id]
             = Some(Unwrap(ws[i]).payment_attempt)

\* C31: the ephemeral-key create and delete routes pass the lock action
\* Not-applicable: their lock step acquires nothing and always goes on to the
\* body, whoever holds a payment lock; no call of theirs ends with Conflict;
\* no step of theirs changes a lock, so a payment lock is only ever held by a
\* pipeline invocation
C31_EphemeralKeysTakeNoLock ==
    /\ [](\A p \in PaymentIds : lock[p] \in Invocations \cup {NoHolder})
    /\ [](\A r \in EphemeralRoutes : epc[r] = "lock" => ENABLED EphLock(r))
    /\ [][\A r \in EphemeralRoutes :
            /\ epc[r] = "lock" /\ epc'[r] # "lock" => epc'[r] = "body"
            /\ epc'[r] # epc[r] => lock' = lock
            /\ eresult'[r] # "Conflict"]_vars

\* an ephemeral key is being created while an invocation holds the lock of
\* pay_1 and another the lock of pay_2
C31_Witness ==
    /\ epc["ephemeral_key_create"] = "body"
    /\ eresult["ephemeral_key_delete"] = "Ok"
    /\ \A p \in PaymentIds : lock[p] \in Invocations

\* the positions of a delete_customer call that has not returned
DeletePositions ==
    {"d_find", "d_mandates", "d_pm_list", "d_pm", "d_pm_row", "d_address", "d_customer"}

\* the customer call j is about has an Active mandate
HasActiveMandate(j) ==
    \E mandate \in find_mandate_by_merchant_id_customer_id(
                        creq[j].auth, creq[j].data.customer_id) :
        mandate.mandate_status = "Active"

\* C32: delete_customer on a customer with an Active mandate fails with
\* MandateActive before any mutation: the call never gets past the mandate
\* check, the check ends it with MandateActive whenever the mandate lookup
\* answers, it has completed no mutating call, and none of its steps changes
\* the payment methods, the vault, the addresses or the customers
C32_ActiveMandateBlocksDelete ==
    /\ [](\A j \in CustomerCalls :
            /\ cresult[j] = "MandateActive" => clog[j] = <<>>
            /\ cpc[j] \in DeletePositions /\ HasActiveMandate(j) =>
                  cpc[j] \in {"d_find", "d_mandates"} /\ clog[j] = <<>>)
    /\ [][\A j \in CustomerCalls :
            cpc[j] \in DeletePositions /\ HasActiveMandate(j) /\ cpc'[j] # cpc[j] =>
               /\ UNCHANGED <<payment_methods, locker, customer_addresses, customers>>
               /\ cpc[j] = "d_mandates" =>
                      /\ cpc'[j] = "done"
                      /\ cfail'[j] = None => cresult'[j] = "MandateActive"]_vars

\* a delete of a stored customer with payment methods and a vault card was
\* refused with MandateActive
C32_Witness ==
    \E j \in CustomerCalls :
        /\ cresult[j] = "MandateActive"
        /\ HasActiveMandate(j)
        /\ \E cust \in customers :
              /\ cust.customer_id = creq[j].data.customer_id
              /\ cust.merchant_id = creq[j].auth
              /\ cust.name # Some(Redacted)
        /\ locker # {}
        /\ \E pm \in payment_methods : pm.customer_id = creq[j].data.customer_id

\* the rows delete_customer call j finds under its key
FoundByCall(j) ==
    find_customer_by_customer_id_merchant_id(creq[j].data.customer_id, creq[j].auth)

\* call k was a delete_customer on the key of call j and succeeded
DeletedBefore(k, j) ==
    /\ k # j
    /\ cpc[k] = "done" /\ cresult[k] = "Ok" /\ clog[k] # <<>>
    /\ creq[k].auth = creq[j].auth
    /\ creq[k].data.customer_id = creq[j].data.customer_id

\* C33: when the customer lookup of delete_customer answers, a customer whose
\* name is "Redacted" ends the call with CustomerRedacted and a missing
\* customer ends it with CustomerNotFound, in both cases with nothing
\* changed; a successful delete leaves the name "Redacted", and a delete that
\* follows a successful delete of the same customer fails with
\* CustomerRedacted
C33_RedactedOrMissingRejected ==
    /\ [](\A j \in CustomerCalls :
            cresult[j] \in {"CustomerRedacted", "CustomerNotFound"} /\ cfail[j] = None
               => clog[j] = <<>>)
    /\ [][\A j \in CustomerCalls :
            /\ cpc[j] = "d_find" /\ cpc'[j] # "d_find" =>
                  /\ UNCHANGED <<customers, mandates, payment_methods, locker,
                                 customer_addresses>>
                  /\ cfail'[j] # Some(<<"find_customer_by_customer_id_merchant_id", "error">>) =>
                        /\ FoundByCall(j) = {} =>
                              cpc'[j] = "done" /\ cresult'[j] = "CustomerNotFound"
                        /\ (\E cust \in FoundByCall(j) : cust.name = Some(Redacted)) =>
                              cpc'[j] = "done" /\ cresult'[j] = "CustomerRedacted"
                        /\ (\E k \in CustomerCalls : DeletedBefore(k, j)) =>
                              cpc'[j] = "done" /\ cresult'[j] = "CustomerRedacted"
            /\ cpc[j] = "d_customer" /\ cresult'[j] = "Ok" =>
                  \A cust \in FoundByCall(j)' : cust.name = Some(Redacted)]_vars

\* a delete that followed a successful delete of the same customer was
\* refused with CustomerRedacted
C33_Witness ==
    \E j, k \in CustomerCalls :
        /\ DeletedBefore(k, j)
        /\ cpc[j] = "done" /\ cresult[j] = "CustomerRedacted"
        /\ clog[j] = <<>>

\* where a mutating call of delete_customer stands in the order of the code
MutationRank(call) ==
    CASE call = "delete_card" -> 1
      [] call = "delete_payment_method" -> 1
      [] call = "update_address" -> 2
      [] call = "update_customer" -> 3

\* the mutating calls completed under a delete_customer come in the order
\* of the code: per payment method the vault deletion right before the row
\* deletion, then one address redaction, then one customer redaction
InMutationOrder(log) ==
    /\ \A a, b \in 1..Len(log) :
          a < b => /\ MutationRank(log[a]) <= MutationRank(log[b])
                   /\ MutationRank(log[a]) = MutationRank(log[b])
                         => MutationRank(log[a]) = 1
    /\ \A a \in 1..Len(log) :
          log[a] = "delete_card" /\ a < Len(log) => log[a + 1] = "delete_payment_method"
    /\ \A a \in 1..Len(log) :
          log[a] = "update_customer" => a > 1 /\ log[a - 1] = "update_address"

\* call j is a delete_customer that got past the customer lookup and failed
FailedInDelete(j) ==
    /\ cpc[j] = "done"
    /\ \/ cresult[j] = "MandateActive"
       \/ /\ cfail[j] # None
          /\ Unwrap(cfail[j])[1] \in
                {"find_mandate_by_merchant_id_customer_id",
                 "find_payment_method_by_customer_id_merchant_id_list",
                 "delete_card",
                 "delete_payment_method_by_merchant_id_payment_method_id",
                 "update_address_by_merchant_id_customer_id",
                 "update_customer_by_customer_id_merchant_id"}

\* C34: delete_customer mutates in the order payment methods (for a card the
\* vault deletion before the row deletion), address redaction, customer
\* redaction; a failing step ends the call and changes nothing; the customer
\* row is written only by the last step, after the payment methods fetched
\* were all gone through and the address redaction succeeded with no step
\* having failed; a delete that failed has not redacted the customer, so
\* unless another delete of the same key succeeded the name is not "Redacted"
C34_MutationOrder ==
    /\ [](\A j \in CustomerCalls :
            /\ InMutationOrder(clog[j])
            /\ cresult[j] \notin {"none", "Ok"} =>
                  \A a \in 1..Len(clog[j]) : clog[j][a] # "update_customer"
            /\ FailedInDelete(j) /\ (\A k \in CustomerCalls : ~ DeletedBefore(k, j)) =>
                  /\ FoundByCall(j) # {}
                  /\ \A cust \in FoundByCall(j) : cust.name # Some(Redacted))
    /\ [][\A j \in CustomerCalls :
            cpc[j] \in DeletePositions /\ <<cpc[j], dpms[j]>> # <<cpc'[j], dpms'[j]>> =>
               /\ cresult'[j] \notin {"none", "Ok"} =>
                     /\ cpc'[j] = "done" /\ clog'[j] = clog[j]
                     /\ UNCHANGED <<customers, payment_methods, locker,
                                    customer_addresses>>
               /\ customers' # customers =>
                     /\ cpc[j] = "d_customer" /\ cresult'[j] = "Ok"
                     /\ cfail[j] = None /\ dpms[j] = <<>>
                     /\ clog[j] # <<>> /\ clog[j][Len(clog[j])] = "update_address"
               /\ cfail'[j] # None => cpc'[j] = "done"]_vars

\* a delete failed at the address redaction after the card was deleted from
\* the vault and the payment-method rows were deleted: the customer is not
\* redacted
C34_Witness ==
    \E j \in CustomerCalls :
        /\ FailedInDelete(j)
        /\ cfail[j] # None
        /\ Unwrap(cfail[j])[1] = "update_address_by_merchant_id_customer_id"
        /\ clog[j] = <<"delete_card", "delete_payment_method", "delete_payment_method">>
        /\ \A cust \in FoundByCall(j) : cust.name = Some("Zed")

\* the keys under which a customer row is stored
CustomerKeys(rows) == { <<c.customer_id, c.merchant_id>> : c \in rows }

\* call j was a retrieve_customer and succeeded
RetrievedOk(j) ==
    /\ cpc[j] = "done" /\ cresult[j] = "Ok"
    /\ clog[j] = <<>> /\ creq[j].data.name = None

\* C35: no customer operation removes a customer row: every key stored stays
\* stored under create, retrieve, update and delete; a retrieve of a stored
\* key succeeds with the stored (after a delete: redacted) record whenever
\* the storage answers; the compensating fetch of create_customer is only
\* made on a stored key and never comes back not-found
C35_RowNeverRemoved ==
    /\ [](\A j \in CustomerCalls : cpc[j] = "fetch" => FoundByCall(j) # {})
    /\ [][/\ CustomerKeys(customers) \subseteq CustomerKeys(customers')
          /\ \A j \in CustomerCalls :
               /\ cpc[j] = "fetch" /\ cpc'[j] = "done" => cfetch'[j] # "not_found"
               /\ cpc[j] = "r_find" /\ cpc'[j] = "done" /\ FoundByCall(j) # {}
                  /\ cfail'[j] # Some(<<"find_customer_by_customer_id_merchant_id", "error">>)
                     => /\ cresult'[j] = "Ok"
                        /\ \E c \in FoundByCall(j) :
                              cresponse'[j] = Some(CustomerResponse(c))]_vars

\* a retrieve after a successful delete of the same customer returned the
\* redacted record
C35_Witness ==
    \E j, k \in CustomerCalls :
        /\ DeletedBefore(k, j)
        /\ RetrievedOk(j)
        /\ Unwrap(cresponse[j]).name = Some(Redacted)

\* the row is as a successful delete_customer leaves it
IsRedacted(c) ==
    /\ c.name = Some(Redacted)
    /\ c.email = Some(Redacted)
    /\ c.phone = Some(Redacted)
    /\ c.description = Some(Redacted)

\* C36: redaction is permanent: a customer row redacted by delete_customer
\* keeps the name, email, phone and description "Redacted" under every later
\* create, update, retrieve and delete on its key
C36_AsClaimed ==
    [][\A c \in customers :
          IsRedacted(c) =>
             \A d \in customers' :
                 d.customer_id = c.customer_id /\ d.merchant_id = c.merchant_id
                    => IsRedacted(d)]_vars

\* the request of call j with the merchant id of its body replaced by m
WithBodyMerchant(j, m) == [creq[j].data EXCEPT !.merchant_id = m]

\* C37: create_customer stores and looks up under the merchant id of the
\* authenticated merchant account, whatever merchant id the request body
\* carries: at every step of a create, the same request with any other
\* merchant id in its body validates alike, builds the same row, gets the
\* same insert outcome, the same lookup and the same response
C37_MerchantOfAccount ==
    [][\A j \in CustomerCalls : \A m \in Merchants :
          LET auth == creq[j].auth
              other == WithBodyMerchant(j, m)
              new_customer == CustomerNew(auth, other)
          IN /\ cpc[j] = "validate" /\ cpc'[j] # "validate" =>
                   (cpc'[j] = "insert") = validate(other)
             /\ cpc[j] = "insert" /\ cpc'[j] # "insert" =>
                   /\ customers' \ customers \subseteq {new_customer}
                   /\ \A c \in customers' \ customers : c.merchant_id = auth
                   /\ \E fault \in StorageFaults :
                         cinsert'[j] = insert_customer(fault, new_customer)
                   /\ cresult'[j] = "Ok" =>
                         cresponse'[j] = Some(CustomerResponse(new_customer))
             /\ cpc[j] = "fetch" /\ cpc'[j] # "fetch" /\ cresult'[j] = "Ok" =>
                   \E c \in find_customer_by_customer_id_merchant_id(
                                 other.customer_id, auth) :
                       cresponse'[j] = Some(CustomerResponse(c))]_vars

\* a create carrying merchant m_2 in its body, made by merchant m_1, stored
\* its row under m_1
C37_Witness ==
    \E j \in CustomerCalls :
        /\ cpc[j] = "done" /\ cresult[j] = "Ok" /\ cinsert[j] = "ok"
        /\ creq[j].auth = "m_1" /\ creq[j].data.merchant_id = "m_2"
        /\ CustomerNew("m_1", creq[j].data) \in customers
        /\ \A c \in customers : c.merchant_id = "m_1"

\* number of PaymentReject audit events emitted for payment p
EventsOn(p) ==
    Cardinality({n \in 1..Len(audit) :
                   audit[n].event_type = "PaymentReject" /\ audit[n].payment_id = p})

\* the invocations on payment p whose reject went through: both statements
\* were written and the event emitted
RejectedBy(p) == {i \in InvocationsOn(p) : result[i] = "Ok"}

\* C38: under the lock a payment is rejected at most once: at most one
\* invocation on a payment writes the attempt's error fields and ends Ok, at
\* most one PaymentReject event is emitted per payment; the attempt is
\* written and the event emitted only while no reject of the payment has
\* gone through; and an invocation that runs GetTracker after a reject of
\* its payment went through never gets past it: whenever it reaches the
\* guard, the guard sees Failed and ends it with InvalidStatusTransition
C38_RejectedAtMostOnce ==
    /\ [](\A p \in Payments :
            /\ Cardinality(RejectedBy(p)) <= 1
            /\ EventsOn(p) = Cardinality(RejectedBy(p)))
    /\ [][\A i \in Invocations :
            /\ pc[i] = "update_attempt" /\ result'[i] = "Ok" =>
                  /\ RejectedBy(req[i].payment_id) = {}
                  /\ EventsOn(req[i].payment_id) = 0
                  /\ lock[req[i].payment_id] = i
            /\ pc[i] = "get_trackers" /\ pc'[i] # "get_trackers"
               /\ RejectedBy(req[i].payment_id) # {} =>
                  /\ pc'[i] = "release" /\ ws'[i] = None
                  /\ guarded'[i] # None =>
                        /\ guarded'[i] = Some("Failed")
                        /\ result'[i] = "InvalidStatusTransition"
                  /\ req[i].mc.merchant_id = "m_1" /\ ~faulted'[i] =>
                        guarded'[i] = Some("Failed")]_vars

\* after a reject of pay_1 went through, a second invocation on pay_1 took
\* the lock, was stopped by the guard, and there is one event for pay_1
C38_Witness ==
    \E i, k \in Invocations :
        /\ i # k
        /\ req[i].payment_id = "pay_1" /\ req[k].payment_id = "pay_1"
        /\ pc[i] = "done" /\ result[i] = "Ok"
        /\ pc[k] = "release" /\ lock["pay_1"] = k
        /\ result[k] = "InvalidStatusTransition"
        /\ EventsOn("pay_1") = 1
        /\ StoredActiveAttempt(i).status = "Failure"

\* invocation i has the rows of its Working Set stored under its keys
SnapshotRowsStored(i) ==
    LET data == Unwrap(ws[i])
    IN /\ IsSome(update_payment_intent(data.payment_intent, IntentRejectUpdate("")))
       /\ IsSome(update_payment_attempt_with_attempt_id(
                    data.payment_attempt, AttemptRejectUpdate(None, "")))

\* every started invocation on the payment of i went through the acquire
\* call of the Locking Coordinator
AllUnderLock(i) ==
    \A k \in InvocationsOn(req[i].payment_id) : pc[k] = "acquire" \/ acquires[k] >= 1

\* C39: UpdateTracker makes no status check of its own: whatever status is
\* stored, the intent statement of an invocation whose rows are stored and
\* whose storage call does not fail writes Failed over it and goes on, and
\* its attempt statement ends the phase Ok with one more audit event; the
\* status the guard saw is the status stored when the intent is written as
\* long as every invocation on the payment runs under the lock
C39_NoCheckInUpdateTracker ==
    /\ [](\A i \in Invocations :
            pc[i] = "update_intent" /\ AllUnderLock(i) =>
               guarded[i] = Some(StoredIntent(i).status))
    /\ [][\A i \in Invocations :
            /\ pc[i] = "update_intent" /\ pc'[i] # "update_intent"
               /\ SnapshotRowsStored(i) /\ ~faulted'[i] =>
                  /\ pc'[i] = "update_attempt"
                  /\ StoredIntent(i)' =
                        [StoredIntent(i) EXCEPT
                           !.status = "Failed",
                           !.merchant_decision = Some("Rejected"),
                           !.updated_by = Unwrap(vres[i]).storage_scheme]
            /\ pc[i] = "update_attempt" /\ pc'[i] # "update_attempt"
               /\ SnapshotRowsStored(i) /\ ~faulted'[i] =>
                  /\ result'[i] = "Ok"
                  /\ Len(audit') = Len(audit) + 1
                  /\ audit'[Len(audit')].request = i]_vars

\* two invocations on pay_1 ran without the lock, both passed the guard on
\* RequiresCapture, both wrote, and two PaymentReject events were emitted
C39_Witness ==
    \E i, k \in Invocations :
        /\ i # k
        /\ req[i].payment_id = "pay_1" /\ req[k].payment_id = "pay_1"
        /\ acquires[i] = 0 /\ acquires[k] = 0
        /\ guarded[i] = Some("RequiresCapture") /\ guarded[k] = Some("RequiresCapture")
        /\ result[i] = "Ok" /\ result[k] = "Ok"
        /\ EventsOn("pay_1") = 2


====
